---- MODULE Spec2Model ----
(***************************************************************************)
(* Level-retracement strategy state machine (src/strategy/strategy.py),    *)
(* its trading-hours oracle (src/lib/cme_trading_hours.py) and its SQLite  *)
(* store (src/lib/state_persistence.py).                                   *)
(*                                                                         *)
(* Prices are integers in index points.  Offsets are configured in ticks   *)
(* and converted to points by Strategy.__init__ (ticks / 4); the configs   *)
(* used here carry multiples of 4 ticks, for which the division is exact.  *)
(* Timestamps are naive exchange-local datetimes, counted in minutes from  *)
(* Monday 00:00 of the first week.  Python's None is the value None below  *)
(* for nullable numbers and the string "none" for a retrace annotation.    *)
(***************************************************************************)
EXTENDS Integers, Sequences, FiniteSets, TLC

None == -1

\* ------------------------------------------------------------------------
\* Bounds of the exploration
\* ------------------------------------------------------------------------
\* A run dispatches at most this many bars to the strategy after the first.
MaxBars == 3

\* The broker failure injected into one update hits one of its first
\* MaxBrokerCalls broker interactions.
MaxBrokerCalls == 2

\* A run with concurrent ingest requests accepts at most this many requests.
MaxRequests == 4

\* A run with concurrent store operations updates the strategy at most
\* MaxStoreBars times and loads at most MaxLoads times.
MaxStoreBars == 2

MaxLoads == 1

\* The refresh loop of a token manager is followed for MaxTicks intervals.
MaxTicks == 8

\* ------------------------------------------------------------------------
\* Inputs: ladder, prices, bar timestamps, configurations
\* ------------------------------------------------------------------------
\* The ladder after load_static_levels (sorted, strictly increasing),
\* indexed 0..N-1 as in the code.
static_levels == (0 :> 10) @@ (1 :> 20)

NumLevels == Cardinality(DOMAIN static_levels)

LevelIdx == DOMAIN static_levels

\* list.index(level): the first index holding the value.
IndexOfLevel(level) == CHOOSE i \in LevelIdx :
                          /\ static_levels[i] = level
                          /\ \A k \in LevelIdx : static_levels[k] = level => i <= k

Prices == {9, 11, 20, 21, 25}

\* Bars fed to the dispatcher: for every close, the bar that fell to it
\* from the sample price above, the bar that rose to it from the sample
\* price below, and the wide bar spanning all sample prices.
Below(p) == IF \E q \in Prices : q < p
            THEN CHOOSE q \in Prices : q < p /\ \A r \in Prices : r < p => r <= q
            ELSE p

Above(p) == IF \E q \in Prices : q > p
            THEN CHOOSE q \in Prices : q > p /\ \A r \in Prices : r > p => r >= q
            ELSE p

LowestPrice == CHOOSE p \in Prices : \A q \in Prices : p <= q

HighestPrice == CHOOSE p \in Prices : \A q \in Prices : p >= q

Bars ==
    { [close |-> c, high |-> h, low |-> l] :
          c \in Prices, h \in Prices, l \in Prices }
      \cap
    { b \in [close : Prices, high : Prices, low : Prices] :
          \/ b.low = b.close /\ b.high = Above(b.close)
          \/ b.low = Below(b.close) /\ b.high = b.close
          \/ b.low = LowestPrice /\ b.high = HighestPrice }

MinutesPerDay == 1440

At(day, hour, minute) == day * MinutesPerDay + hour * 60 + minute

\* Sample bar timestamps of a feed.  Intraday: Friday afternoon bars less
\* than and exactly five minutes apart.  Close: Friday before the flatten
\* window, twice in it, and at the close.  Weekend: Friday,
\* Saturday, Sunday before the reopen, and Monday (an early-close date) in
\* its flatten window.
IntradayTimes == { At(4, 15, 30), At(4, 15, 33), At(4, 15, 35) }

CloseTimes == { At(4, 15, 30), At(4, 15, 45), At(4, 15, 50), At(4, 16, 0) }

WeekendTimes == { At(4, 15, 30), At(5, 15, 45), At(6, 15, 45), At(7, 15, 35) }

Feeds == {IntradayTimes, CloseTimes, WeekendTimes}

\* early_close_calendar: date -> close time (minute of day).  Monday of the
\* second week closes early at 15:50.
early_close_calendar == (7 :> (15 * 60 + 50))

\* ------------------------------------------------------------------------
\* datetime helpers
\* ------------------------------------------------------------------------
\* datetime.date()
DateOf(dt) == dt \div MinutesPerDay

\* datetime.time(), as minute of day
TimeOf(dt) == dt % MinutesPerDay

\* datetime.weekday(): Monday = 0 .. Sunday = 6
Weekday(dt) == DateOf(dt) % 7

\* ------------------------------------------------------------------------
\* CMETradingHours
\* ------------------------------------------------------------------------
DAILY_CLOSE_TIME == 16 * 60

DAILY_REOPEN_TIME == 17 * 60

FLATTEN_MINUTES_BEFORE_CLOSE == 20

\* _to_chicago_time: a naive datetime is taken as exchange-local already
\* (tzinfo is attached, the wall-clock fields are unchanged).
ToChicagoTime(dt) == dt

GetCloseTimeForDate(dt) ==
    IF DateOf(dt) \in DOMAIN early_close_calendar
    THEN early_close_calendar[DateOf(dt)]
    ELSE DAILY_CLOSE_TIME

\* datetime.combine(date, close) - timedelta(minutes=20), then .time()
GetFlattenTimeForDate(dt) ==
    (DateOf(dt) * MinutesPerDay + GetCloseTimeForDate(dt)
        - FLATTEN_MINUTES_BEFORE_CLOSE) % MinutesPerDay

\* is_market_closed without its Saturday rule
IsMarketClosedNoSaturday(dt) ==
    LET chicago_dt == ToChicagoTime(dt)
        current_time == TimeOf(chicago_dt)
        weekday == Weekday(chicago_dt)
        close_time == GetCloseTimeForDate(chicago_dt)
    IN  IF weekday = 6 THEN current_time < DAILY_REOPEN_TIME
        ELSE close_time <= current_time /\ current_time < DAILY_REOPEN_TIME

IsMarketClosed(dt) ==
    LET chicago_dt == ToChicagoTime(dt)
        current_time == TimeOf(chicago_dt)
        weekday == Weekday(chicago_dt)
        close_time == GetCloseTimeForDate(chicago_dt)
    IN  IF weekday = 5 THEN TRUE
        ELSE IF weekday = 6 THEN current_time < DAILY_REOPEN_TIME
        ELSE close_time <= current_time /\ current_time < DAILY_REOPEN_TIME

ShouldFlattenPositions(dt) ==
    LET chicago_dt == ToChicagoTime(dt)
        current_time == TimeOf(chicago_dt)
        weekday == Weekday(chicago_dt)
        flatten_time == GetFlattenTimeForDate(chicago_dt)
        close_time == GetCloseTimeForDate(chicago_dt)
    IN  IF weekday = 5 THEN FALSE
        ELSE IF weekday = 6 /\ current_time < DAILY_REOPEN_TIME THEN FALSE
        ELSE flatten_time <= current_time /\ current_time < close_time

IsTradingAllowed(dt) ==
    IF IsMarketClosed(dt) THEN FALSE
    ELSE IF ShouldFlattenPositions(dt) THEN FALSE
    ELSE TRUE

\* get_trading_status, with the status message reduced to its class.
get_trading_status(dt) ==
    LET chicago_dt == ToChicagoTime(dt)
        current_time == TimeOf(chicago_dt)
        weekday == Weekday(chicago_dt)
        close_time == GetCloseTimeForDate(chicago_dt)
        flatten_time == GetFlattenTimeForDate(chicago_dt)
    IN  IF weekday = 5 THEN "CLOSED"
        ELSE IF weekday = 6 /\ current_time < DAILY_REOPEN_TIME THEN "CLOSED"
        ELSE IF close_time <= current_time /\ current_time < DAILY_REOPEN_TIME THEN "CLOSED"
        ELSE IF flatten_time <= current_time /\ current_time < close_time
        THEN "FLATTEN_WINDOW"
        ELSE "OPEN"

\* ------------------------------------------------------------------------
\* Strategy
\* ------------------------------------------------------------------------
MIN_ENTRY_INTERVAL_MINUTES == 5

\* Offsets of no width
NoTicks(ticks) == 0

\* Strategy.__init__: offsets are converted from ticks to price.
TicksToPrice(ticks) == ticks \div 4

\* Constructor arguments with a re-entry distance of no level
SelfArmingConfigs ==
    [ name : {"S1"},
      is_trading_long : BOOLEAN,
      entry_offset : {4},
      take_profit_offset : {64},
      stop_loss_offset : {4},
      trail_trigger : {1},
      re_entry_distance : {0},
      max_open_trades : {2},
      max_contracts_per_trade : {1, 2},
      symbol_size : {5},
      has_trader : BOOLEAN,
      has_persistence : {TRUE},
      use_trading_hours : {TRUE} ]

\* Constructor arguments explored.  has_trader: trader is not None;
\* has_persistence: persistence is not None (auto_save defaults to True).
Configs ==
    [ name : {"S1"},
      is_trading_long : BOOLEAN,
      entry_offset : {4},
      take_profit_offset : {64},
      stop_loss_offset : {4},
      trail_trigger : {1},
      re_entry_distance : {1},
      max_open_trades : {2},
      max_contracts_per_trade : {1, 2},
      symbol_size : {5},
      has_trader : BOOLEAN,
      has_persistence : {TRUE},
      use_trading_hours : {TRUE} ]

\* The constructor arguments of the runs explored: each direction with and
\* without a broker, one contract per entry in one pair and two in the other.
RunConfigs ==
    { c \in Configs :
          c.max_contracts_per_trade = (IF c.is_trading_long = c.has_trader THEN 2 ELSE 1) }

\* A new instance after __init__ and load_static_levels.  Of the market
\* fields, price and index are kept in the instance; last_price, high_price
\* and low_price are written by update and read only during that call, so
\* they are carried by the call in progress (Running) and are not part of
\* the stored instance.  fires and entry_log are history variables of the model: entry_log has one element
\* per BUY/SELL record, in order, naming the bar, the ladder index that
\* triggered it and the number of the firing that produced it.
Strategy(c) ==
    [ name |-> c.name,
      is_trading_long |-> c.is_trading_long,
      entry_offset |-> TicksToPrice(c.entry_offset),
      take_profit_offset |-> TicksToPrice(c.take_profit_offset),
      stop_loss_offset |-> TicksToPrice(c.stop_loss_offset),
      trail_trigger |-> c.trail_trigger,
      re_entry_distance |-> c.re_entry_distance,
      max_open_trades |-> c.max_open_trades,
      max_contracts_per_trade |-> c.max_contracts_per_trade,
      symbol_size |-> c.symbol_size,
      has_trader |-> c.has_trader,
      has_persistence |-> c.has_persistence,
      use_trading_hours |-> c.use_trading_hours,
      trade_history |-> << >>,
      open_trade_count |-> 0,
      open_trade_list |-> << >>,
      retrace_levels |-> [i \in LevelIdx |-> "none"],
      total_pnl |-> 0,
      cumulative_pnl |-> << >>,
      price |-> None,
      index |-> None,
      positions_flattened_today |-> FALSE,
      last_flatten_date |-> None,
      entries_this_bar |-> {},
      last_bar_index |-> None,
      last_entry_time |-> None,
      fires |-> 0,
      entry_log |-> << >> ]

\* The broker during one update: its call number `at` (0: none) fails,
\* by raising (HTTP error) or by answering with an empty body.
BrokerPlans ==
    {[at |-> 0, kind |-> "ok"]}
        \cup [at : 1..MaxBrokerCalls, kind : {"raise", "empty"}]

NoFailure == [at |-> 0, kind |-> "ok"]

\* A broker whose every call is answered with a filled order
BrokerAlwaysFills(plan, n) == "ok"

BrokerOutcome(plan, n) == IF plan.at = n THEN plan.kind ELSE "ok"

\* An update in progress: the instance, the arguments written to
\* last_price, high_price and low_price, the broker calls made so far,
\* whether an exception is propagating, and trades_to_remove.
Running(s, last_price, high_price, low_price) ==
    [s |-> s, last_price |-> last_price, high_price |-> high_price,
     low_price |-> low_price, calls |-> 0, err |-> FALSE, rm |-> << >>]

Max(a, b) == IF a >= b THEN a ELSE b

Min(a, b) == IF a <= b THEN a ELSE b

calculate_max_open_trades(s) == s.max_open_trades - s.open_trade_count

\* Reset of the per-bar entry tracking when the bar changes.
ResetEntriesThisBar(s) ==
    IF s.index # s.last_bar_index
    THEN [s EXCEPT !.entries_this_bar = {}, !.last_bar_index = s.index]
    ELSE s

\* The downward cross with `level <= high` in place of `level < high`
CrossedDownInclusive(x, level) == x.s.price <= level /\ level <= x.high_price

CrossedDown(x, level) == x.s.price <= level /\ level < x.high_price

CrossedUp(x, level) == x.s.price >= level /\ level > x.low_price

\* The smallest ladder index of a set of them, NumLevels for the empty set.
FirstOf(indices) ==
    IF indices = {} THEN NumLevels
    ELSE CHOOSE i \in indices : \A j \in indices : i <= j

\* The level-cross loop of run_buy_strategy: DOWN is tested first.  With a
\* null low, the comparison `level > self.low_price` raises a TypeError at
\* the first level where it is evaluated; the levels before it are
\* annotated.
AnnotateBuy(x) ==
    LET stop == FirstOf({i \in LevelIdx :
                            /\ x.low_price = None
                            /\ ~CrossedDown(x, static_levels[i])
                            /\ x.s.price >= static_levels[i]})
    IN  [x EXCEPT !.s.retrace_levels =
                      [i \in LevelIdx |->
                          IF i >= stop THEN @[i]
                          ELSE IF CrossedDown(x, static_levels[i]) THEN "down"
                          ELSE IF CrossedUp(x, static_levels[i]) THEN "up"
                          ELSE @[i]],
                  !.err = @ \/ stop < NumLevels]

\* The level-cross loop of run_sell_strategy: UP is tested first.  With a
\* null low, `level > self.low_price` raises a TypeError at the first level
\* the close is at or above.
AnnotateSell(x) ==
    LET stop == FirstOf({i \in LevelIdx :
                            /\ x.low_price = None
                            /\ x.s.price >= static_levels[i]})
    IN  [x EXCEPT !.s.retrace_levels =
                      [i \in LevelIdx |->
                          IF i >= stop THEN @[i]
                          ELSE IF CrossedUp(x, static_levels[i]) THEN "up"
                          ELSE IF CrossedDown(x, static_levels[i]) THEN "down"
                          ELSE @[i]],
                  !.err = @ \/ stop < NumLevels]

\* The rate limits without the minimum interval
EntryAllowedNoInterval(s, level_idx) == level_idx \notin s.entries_this_bar

\* No rate limit at all
EntryAllowedNoLimit(s, level_idx) == TRUE

\* The two rate limits in front of an entry: not this level again in this
\* bar, and at least MIN_ENTRY_INTERVAL_MINUTES since the last entry.
EntryAllowed(s, level_idx) ==
    /\ level_idx \notin s.entries_this_bar
    /\ \/ s.last_entry_time = None
       \/ ~(s.index - s.last_entry_time < MIN_ENTRY_INTERVAL_MINUTES)

\* Bookkeeping of one filled entry order (the order_success branch).
RecordEntry(s, level_idx, kind, trade) ==
    [s EXCEPT !.trade_history =
                  Append(@, [index |-> s.index, kind |-> kind,
                             price |-> trade.entry_price, pnl |-> 0]),
              !.open_trade_list =
                  Append(@, [trade EXCEPT !.id = Len(s.trade_history) + 1]),
              !.open_trade_count = @ + 1,
              !.entries_this_bar = @ \cup {level_idx},
              !.last_entry_time = s.index,
              !.entry_log = Append(@, [index |-> s.index, level_idx |-> level_idx,
                                       fire |-> s.fires])]

\* One pass of `for _ in range(max_contracts_per_trade)`, k passes left.
RECURSIVE EnterContracts(_, _, _, _)
EnterContracts(x, level_idx, k, plan) ==
    IF k = 0 \/ x.err THEN x
    ELSE
      LET s == x.s
          long == s.is_trading_long
          entry_price == s.price
          trade == [trade_time |-> s.index,
                    entry_price |-> entry_price,
                    stop_level |-> IF long THEN entry_price - s.stop_loss_offset
                                           ELSE s.price + s.stop_loss_offset,
                    trailing_stop |-> None,
                    traded_level |-> static_levels[level_idx],
                    take_profit_level |-> IF long THEN entry_price + s.take_profit_offset
                                                  ELSE entry_price - s.take_profit_offset,
                    id |-> 0]
          n == x.calls + 1
          answer == IF s.has_trader THEN BrokerOutcome(plan, n) ELSE "ok"
          x1 == IF s.has_trader THEN [x EXCEPT !.calls = n] ELSE x
      IN  IF answer = "raise" THEN [x1 EXCEPT !.err = TRUE]
          ELSE IF answer = "empty" THEN EnterContracts(x1, level_idx, k - 1, plan)
          ELSE EnterContracts(
                  [x1 EXCEPT !.s = RecordEntry(s, level_idx,
                                               IF long THEN "BUY" ELSE "SELL", trade)],
                  level_idx, k - 1, plan)

\* The entry loop over the ladder, from level_idx upward.
RECURSIVE EnterLevels(_, _, _)
EnterLevels(x, level_idx, plan) ==
    IF level_idx >= NumLevels \/ x.err THEN x
    ELSE
      LET s == x.s
          long == s.is_trading_long
          level == static_levels[level_idx]
          re_entry_idx == IF long THEN level_idx + s.re_entry_distance
                                  ELSE level_idx - s.re_entry_distance
          condition1 == IF long
                        THEN s.price <= level + s.entry_offset
                             /\ level + s.entry_offset < x.last_price
                        ELSE s.price > level - s.entry_offset
                             /\ level - s.entry_offset >= x.last_price
          condition2 == re_entry_idx \in DOMAIN s.retrace_levels
          condition3 == IF condition2
                        THEN s.retrace_levels[re_entry_idx]
                                = (IF long THEN "down" ELSE "up")
                        ELSE FALSE
      IN  IF condition1 /\ condition2 /\ condition3 /\ EntryAllowed(s, level_idx)
          THEN EnterLevels(
                  EnterContracts(
                      [x EXCEPT !.s.retrace_levels[re_entry_idx] = "none",
                                !.s.fires = @ + 1],
                      level_idx, s.max_contracts_per_trade, plan),
                  level_idx + 1, plan)
          ELSE EnterLevels(x, level_idx + 1, plan)

run_buy_strategy(x, plan) ==
    LET s0 == ResetEntriesThisBar(x.s)
        max_open_trades == calculate_max_open_trades(s0)
        x1 == AnnotateBuy([x EXCEPT !.s = s0])
    IN  IF max_open_trades > 0 THEN EnterLevels(x1, 0, plan) ELSE x1

run_sell_strategy(x, plan) ==
    LET s0 == ResetEntriesThisBar(x.s)
        max_open_trades == calculate_max_open_trades(s0)
        x1 == AnnotateSell([x EXCEPT !.s = s0])
    IN  IF max_open_trades > 0 THEN EnterLevels(x1, 0, plan) ELSE x1

\* ------------------------------------------------------------------------
\* Exit evaluation and flatten
\* ------------------------------------------------------------------------
\* Python list equality of two open trades: the six stored fields (the
\* model's id is not part of the program's trade).
SameTrade(a, b) ==
    /\ a.trade_time = b.trade_time
    /\ a.entry_price = b.entry_price
    /\ a.stop_level = b.stop_level
    /\ a.trailing_stop = b.trailing_stop
    /\ a.traded_level = b.traded_level
    /\ a.take_profit_level = b.take_profit_level

\* del list[list.index(trade)]: drop the first element equal to trade.
RemoveFirst(list, trade) ==
    LET hits == {k \in 1..Len(list) : SameTrade(list[k], trade)}
        first == CHOOSE k \in hits : \A m \in hits : k <= m
    IN  IF hits = {} THEN list
        ELSE [k \in 1..(Len(list) - 1) |->
                 IF k < first THEN list[k] ELSE list[k + 1]]

RECURSIVE RemoveAll(_, _)
RemoveAll(list, trades_to_remove) ==
    IF trades_to_remove = << >> THEN list
    ELSE RemoveAll(RemoveFirst(list, Head(trades_to_remove)), Tail(trades_to_remove))

\* The bookkeeping of a closed trade without `total_pnl += pnl`
RecordExitNoTotal(s, kind, pnl) ==
    [s EXCEPT !.trade_history =
                  Append(@, [index |-> s.index, kind |-> kind,
                             price |-> s.price, pnl |-> pnl]),
              !.cumulative_pnl = Append(@, s.total_pnl)]

\* The bookkeeping of a closed trade without the cumulative_pnl point
RecordExitNoCumulative(s, kind, pnl) ==
    [s EXCEPT !.total_pnl = @ + pnl,
              !.trade_history =
                  Append(@, [index |-> s.index, kind |-> kind,
                             price |-> s.price, pnl |-> pnl])]

\* Bookkeeping of one closed trade: total_pnl += pnl, then the history
\* record and the cumulative_pnl point.
RecordExit(s, kind, pnl) ==
    [s EXCEPT !.total_pnl = @ + pnl,
              !.trade_history =
                  Append(@, [index |-> s.index, kind |-> kind,
                             price |-> s.price, pnl |-> pnl]),
              !.cumulative_pnl = Append(@, s.total_pnl + pnl)]

\* The trailing stop following the price in both directions
RatchetNoMax(long, trailing_stop, price, stop_loss_offset) ==
    IF long THEN price - stop_loss_offset ELSE price + stop_loss_offset

\* trailing_stop = max(trailing_stop, price - stop_loss_offset) for a long
\* trade, min(trailing_stop, price + stop_loss_offset) for a short one.
Ratchet(long, trailing_stop, price, stop_loss_offset) ==
    IF long THEN Max(trailing_stop, price - stop_loss_offset)
            ELSE Min(trailing_stop, price + stop_loss_offset)

\* The arming check with the distance fixed at two levels
ArmingRaisesWithinTwo(s, trade) ==
    LET index_of_level == IndexOfLevel(trade.traded_level)
    IN  IF trade.entry_price < trade.take_profit_level
        THEN index_of_level + 2 \notin LevelIdx
        ELSE index_of_level < 2

\* The arming step of a trade without trailing stop raises when the ladder
\* has no level to arm on: the explicit raise, or the list index out of
\* range that follows it for a long trade.
ArmingRaises(s, trade) ==
    LET index_of_level == IndexOfLevel(trade.traded_level)
    IN  IF trade.entry_price < trade.take_profit_level
        THEN \/ NumLevels - 2 < index_of_level
             \/ index_of_level + s.trail_trigger \notin LevelIdx
        ELSE index_of_level < s.trail_trigger

\* The body of the loop of check_trade_to_remove for the trade at position
\* i (1-based) and the positions after it.
RECURSIVE CheckTrades(_, _, _)
CheckTrades(x, i, plan) ==
    IF i > Len(x.s.open_trade_list) \/ x.err THEN x
    ELSE
      LET s == x.s
          trade == s.open_trade_list[i]
          is_long_trade == trade.entry_price < trade.take_profit_level
          index_of_level == IndexOfLevel(trade.traded_level)
          trigger_price == IF is_long_trade
                           THEN static_levels[index_of_level + s.trail_trigger]
                           ELSE static_levels[index_of_level - s.trail_trigger]
          passed == IF is_long_trade THEN s.price > trigger_price
                                     ELSE s.price <= trigger_price
          armed == IF trade.trailing_stop = None
                   THEN (IF passed THEN trigger_price ELSE None)
                   ELSE trade.trailing_stop
          trailing_stop == IF armed = None THEN None
                           ELSE Ratchet(is_long_trade, armed, s.price, s.stop_loss_offset)
          exits == IF is_long_trade
                   THEN \/ s.price <= trade.stop_level
                        \/ (trailing_stop # None /\ s.price <= trailing_stop)
                        \/ s.price >= trade.take_profit_level
                   ELSE \/ s.price >= trade.stop_level
                        \/ (trailing_stop # None /\ s.price >= trailing_stop)
                        \/ s.price <= trade.take_profit_level
          pnl == IF is_long_trade
                 THEN (s.price - trade.entry_price) * s.symbol_size
                 ELSE (trade.entry_price - s.price) * s.symbol_size
          s1 == [s EXCEPT !.open_trade_list[i].trailing_stop = trailing_stop]
          s2 == [RecordExit(s1, "EXIT", pnl) EXCEPT !.open_trade_count = @ - 1]
          n == x.calls + 1
          \* trader.get_net_position() and the offsetting order behind it
          answer == IF s.has_trader THEN BrokerOutcome(plan, n) ELSE "ok"
      IN  IF trade.trailing_stop = None /\ ArmingRaises(s, trade)
          THEN [x EXCEPT !.err = TRUE]
          ELSE IF ~exits
          THEN CheckTrades([x EXCEPT !.s = s1], i + 1, plan)
          ELSE IF answer = "raise"
          THEN [x EXCEPT !.s = s2, !.calls = n, !.err = TRUE,
                         !.rm = Append(@, s1.open_trade_list[i])]
          ELSE CheckTrades([x EXCEPT !.s = s2,
                                     !.calls = IF s.has_trader THEN n ELSE @,
                                     !.rm = Append(@, s1.open_trade_list[i])],
                           i + 1, plan)

check_trade_to_remove(x, plan) ==
    IF x.err \/ ~(x.s.open_trade_count > 0) THEN x
    ELSE
      LET y == CheckTrades([x EXCEPT !.rm = << >>], 1, plan)
          remaining == RemoveAll(y.s.open_trade_list, y.rm)
      IN  IF y.err THEN y
          ELSE [y EXCEPT !.s.open_trade_list = remaining,
                         !.s.open_trade_count = Len(remaining)]

\* The loop of flatten_all_positions over a copy of the open list, from
\* position i on.
RECURSIVE FlattenTrades(_, _, _, _)
FlattenTrades(x, trades, i, plan) ==
    IF i > Len(trades) \/ x.err THEN x
    ELSE
      LET s == x.s
          trade == trades[i]
          is_long_trade == trade.entry_price < trade.take_profit_level
          pnl == IF is_long_trade
                 THEN (s.price - trade.entry_price) * s.symbol_size
                 ELSE (trade.entry_price - s.price) * s.symbol_size
          s1 == RecordExit(s, "FLATTEN", pnl)
          n == x.calls + 1
          answer == IF s.has_trader THEN BrokerOutcome(plan, n) ELSE "ok"
      IN  IF answer = "raise"
          THEN [x EXCEPT !.s = s1, !.calls = n, !.err = TRUE]
          ELSE FlattenTrades([x EXCEPT !.s = s1,
                                       !.calls = IF s.has_trader THEN n ELSE @],
                             trades, i + 1, plan)

flatten_all_positions(x, plan) ==
    IF x.s.open_trade_count = 0 THEN x
    ELSE
      LET y == FlattenTrades(x, x.s.open_trade_list, 1, plan)
      IN  IF y.err THEN y
          ELSE [y EXCEPT !.s.open_trade_list = << >>,
                         !.s.open_trade_count = 0]

\* ------------------------------------------------------------------------
\* Strategy.update, up to (not including) save_state
\* ------------------------------------------------------------------------
\* The trading-hours gate of update for a bar in the flatten window.
FlattenWindowBranch(x, plan) ==
    LET s == x.s
        current_date == DateOf(s.index)
        y == flatten_all_positions(x, plan)
        z == IF ~s.positions_flattened_today /\ s.open_trade_count > 0
             THEN (IF y.err THEN y
                   ELSE [y EXCEPT !.s.positions_flattened_today = TRUE,
                                  !.s.last_flatten_date = current_date])
             ELSE x
    IN  check_trade_to_remove(z, plan)

\* The check at the head of update: close, previous close and high; the
\* low is not in the list.
InvalidData(price, last_price, high_price, low_price) ==
    None \in {price, last_price, high_price}

update(s, index, price, last_price, high_price, low_price, plan) ==
    LET s1 == [s EXCEPT !.price = price, !.index = index]
        current_date == DateOf(index)
        s2 == IF s1.use_trading_hours /\ s1.last_flatten_date # current_date
              THEN [s1 EXCEPT !.positions_flattened_today = FALSE]
              ELSE s1
        x == Running(s2, last_price, high_price, low_price)
    IN  IF InvalidData(price, last_price, high_price, low_price)
        THEN [Running(s, last_price, high_price, low_price) EXCEPT !.err = TRUE]
        ELSE IF s.use_trading_hours /\ ShouldFlattenPositions(index)
        THEN FlattenWindowBranch(x, plan)
        ELSE IF s.use_trading_hours /\ ~IsTradingAllowed(index)
        THEN check_trade_to_remove(x, plan)
        ELSE IF s.is_trading_long
        THEN check_trade_to_remove(run_buy_strategy(x, plan), plan)
        ELSE check_trade_to_remove(run_sell_strategy(x, plan), plan)

\* ------------------------------------------------------------------------
\* get_state / set_state and the store
\* ------------------------------------------------------------------------
\* Python's None inside a state dictionary, and str(datetime): a text that
\* _parse_datetime reads back.  str(None) is the text 'None', which no
\* datetime format parses.
PyNone == [none |-> TRUE]

StrOf(dt) == [text |-> dt]

\* str(value) for a value that is None, a datetime or already a text
Str(value) == IF value = PyNone THEN StrOf(None) ELSE value

\* _parse_datetime
ParseDatetime(value) == IF value = PyNone THEN None ELSE value.text

\* `str(x) if x else None`
StrOrNone(dt) == IF dt # None THEN StrOf(dt) ELSE PyNone

get_state(s) ==
    [ open_trade_count |-> s.open_trade_count,
      total_pnl |-> s.total_pnl,
      price |-> s.price,
      index |-> StrOrNone(s.index),
      trade_history |-> s.trade_history,
      open_trade_list |-> s.open_trade_list,
      retrace_levels |-> s.retrace_levels,
      cumulative_pnl |-> s.cumulative_pnl,
      static_levels |-> static_levels,
      last_entry_time |-> StrOrNone(s.last_entry_time),
      entries_this_bar |-> s.entries_this_bar,
      last_bar_index |-> StrOrNone(s.last_bar_index) ]

\* The six tables, empty after _init_database.  strategy_state and the two
\* tables with a UNIQUE(strategy_name, level_index) key are functions of
\* their key; the others are row sequences in id order.
EmptyDb ==
    [ strategy_state |-> << >>,
      trade_history |-> << >>,
      open_trades |-> << >>,
      retrace_levels |-> << >>,
      cumulative_pnl |-> << >>,
      static_levels |-> << >> ]

RowsOf(table, strategy_name) ==
    SelectSeq(table, LAMBDA row : row.strategy_name = strategy_name)

\* The slice without its start: every record is inserted again
SuffixFromStart(list, start) == list

\* list[start:], start counted from 0
Suffix(list, start) ==
    IF start >= Len(list) THEN << >> ELSE SubSeq(list, start + 1, Len(list))

MapSeq(list, F(_)) == [k \in 1..Len(list) |-> F(list[k])]

\* INSERT OR REPLACE on a keyed table
Upsert(table, key, row) ==
    [k \in DOMAIN table \cup {key} |-> IF k = key THEN row ELSE table[k]]

\* The delete without its WHERE clause: the open trades of every strategy go
DeleteOpenTradesOfAll(table, strategy_name) == << >>

\* No delete in front of the insert of the open trades
KeepOpenTrades(table, strategy_name) == table

\* DELETE FROM open_trades WHERE strategy_name = ?
DeleteOpenTrades(table, strategy_name) ==
    SelectSeq(table, LAMBDA row : row.strategy_name # strategy_name)

save_strategy_state(db, strategy_name, state) ==
    LET existing_count == Len(RowsOf(db.trade_history, strategy_name))
        new_trades == Suffix(state.trade_history, existing_count)
        existing_pnl_count == Len(RowsOf(db.cumulative_pnl, strategy_name))
        new_pnl_values == Suffix(state.cumulative_pnl, existing_pnl_count)
        TradeRow(trade) == [strategy_name |-> strategy_name,
                            trade_index |-> StrOf(trade.index),
                            trade_type |-> trade.kind,
                            price |-> trade.price,
                            pnl |-> trade.pnl]
        OpenRow(trade) == [strategy_name |-> strategy_name,
                           trade_time |-> StrOf(trade.trade_time),
                           entry_price |-> trade.entry_price,
                           stop_level |-> trade.stop_level,
                           trailing_stop |-> trade.trailing_stop,
                           traded_level |-> trade.traded_level,
                           take_profit_level |-> trade.take_profit_level]
        level_keys == {<<strategy_name, i>> : i \in DOMAIN state.retrace_levels}
        static_keys == {<<strategy_name, i>> : i \in DOMAIN state.static_levels}
        first_save == ~(\E key \in DOMAIN db.static_levels : key[1] = strategy_name)
    IN  [ strategy_state |->
              Upsert(db.strategy_state, strategy_name,
                     [ open_trade_count |-> state.open_trade_count,
                       total_pnl |-> state.total_pnl,
                       price |-> state.price,
                       last_index |-> Str(state.index) ]),
          trade_history |-> db.trade_history \o MapSeq(new_trades, TradeRow),
          open_trades |->
              DeleteOpenTrades(db.open_trades, strategy_name)
                  \o MapSeq(state.open_trade_list, OpenRow),
          retrace_levels |->
              [key \in DOMAIN db.retrace_levels \cup level_keys |->
                  IF key \in level_keys THEN state.retrace_levels[key[2]]
                  ELSE db.retrace_levels[key]],
          cumulative_pnl |->
              db.cumulative_pnl \o
                  [k \in 1..Len(new_pnl_values) |->
                      [strategy_name |-> strategy_name,
                       sequence_number |-> existing_pnl_count + k - 1,
                       pnl_value |-> new_pnl_values[k]]],
          static_levels |->
              IF first_save
              THEN [key \in DOMAIN db.static_levels \cup static_keys |->
                       IF key \in static_keys THEN state.static_levels[key[2]]
                       ELSE db.static_levels[key]]
              ELSE db.static_levels ]

\* The delete of the strategy_state row alone: the child rows stay
DeleteParentRowOnly(db, strategy_name) ==
    [db EXCEPT !.strategy_state =
                   [k \in DOMAIN db.strategy_state \ {strategy_name} |->
                       db.strategy_state[k]]]

\* delete_strategy_state: one DELETE ... WHERE strategy_name = ? per table.
delete_strategy_state(db, strategy_name) ==
    LET Others(table) == SelectSeq(table, LAMBDA row : row.strategy_name # strategy_name)
        OtherKeys(table) == [k \in {key \in DOMAIN table : key[1] # strategy_name} |->
                                table[k]]
    IN  [ strategy_state |->
              [k \in DOMAIN db.strategy_state \ {strategy_name} |-> db.strategy_state[k]],
          trade_history |-> Others(db.trade_history),
          open_trades |-> Others(db.open_trades),
          retrace_levels |-> OtherKeys(db.retrace_levels),
          cumulative_pnl |-> Others(db.cumulative_pnl),
          static_levels |-> OtherKeys(db.static_levels) ]

\* list_strategies: the names in strategy_state.
list_strategies(db) == DOMAIN db.strategy_state

\* The tables in the order save_strategy_state writes them.
SaveTables ==
    <<"strategy_state", "trade_history", "open_trades", "retrace_levels",
      "cumulative_pnl", "static_levels">>

\* A failure can stop the save in any of its writes (1..6) or in the
\* commit behind them.
SaveFailurePoints == 1..(Len(SaveTables) + 1)

\* The uncommitted store of the transaction once the first n tables are
\* written.
PendingSave(db, strategy_name, state, n) ==
    LET full == save_strategy_state(db, strategy_name, state)
    IN  [t \in DOMAIN db |->
            IF \E k \in 1..n : SaveTables[k] = t THEN full[t] ELSE db[t]]

\* Writes of a failed transaction that stay in the store
KeepPending(before, pending) == pending

\* conn.rollback(): the store as it was when the transaction began.
Rollback(before, pending) == before

\* save_strategy_state with a failure at write fail_at (0: none): the store
\* after the call and whether the call raised.
save_strategy_state_failing(db, strategy_name, state, fail_at) ==
    IF fail_at = 0
    THEN [db |-> save_strategy_state(db, strategy_name, state), raised |-> FALSE]
    ELSE [db |-> Rollback(db, PendingSave(db, strategy_name, state, fail_at - 1)),
          raised |-> TRUE]

\* Rows of a table in the order of an integer column (ORDER BY
\* sequence_number), ties in id order.
RECURSIVE SortBySequence(_)
SortBySequence(rows) ==
    IF rows = << >> THEN << >>
    ELSE LET least == CHOOSE k \in 1..Len(rows) :
                          \A m \in 1..Len(rows) :
                              \/ rows[k].sequence_number < rows[m].sequence_number
                              \/ (rows[k].sequence_number = rows[m].sequence_number
                                    /\ k <= m)
         IN  <<rows[least]>> \o
                 SortBySequence([k \in 1..(Len(rows) - 1) |->
                                    IF k < least THEN rows[k] ELSE rows[k + 1]])

\* The state dictionary load_strategy_state returns for a stored strategy.
\* It has no key for last_entry_time, entries_this_bar or last_bar_index:
\* no table has a column for them.
LoadedState(db, strategy_name) ==
    LET row == db.strategy_state[strategy_name]
    IN  [ open_trade_count |-> row.open_trade_count,
          total_pnl |-> row.total_pnl,
          price |-> row.price,
          index |-> row.last_index,
          trade_history |->
              MapSeq(RowsOf(db.trade_history, strategy_name),
                     LAMBDA r : [index |-> r.trade_index, kind |-> r.trade_type,
                                 price |-> r.price, pnl |-> r.pnl]),
          open_trade_list |->
              MapSeq(RowsOf(db.open_trades, strategy_name),
                     LAMBDA r : [trade_time |-> r.trade_time,
                                 entry_price |-> r.entry_price,
                                 stop_level |-> r.stop_level,
                                 trailing_stop |-> r.trailing_stop,
                                 traded_level |-> r.traded_level,
                                 take_profit_level |-> r.take_profit_level]),
          retrace_levels |->
              [i \in {key[2] : key \in {k \in DOMAIN db.retrace_levels :
                                           k[1] = strategy_name}} |->
                  db.retrace_levels[<<strategy_name, i>>]],
          cumulative_pnl |->
              MapSeq(SortBySequence(RowsOf(db.cumulative_pnl, strategy_name)),
                     LAMBDA r : r.pnl_value) ]

\* load_strategy_state: None when strategy_state has no row of the name.
load_strategy_state(db, strategy_name) ==
    IF strategy_name \notin DOMAIN db.strategy_state THEN PyNone
    ELSE LoadedState(db, strategy_name)

\* set_state: restore an instance from a state dictionary; a key the
\* dictionary lacks takes the default of state.get.
set_state(s, state) ==
    LET Get(key, default) == IF key \in DOMAIN state THEN state[key] ELSE default
    IN  [s EXCEPT
            !.open_trade_count = state.open_trade_count,
            !.total_pnl = state.total_pnl,
            !.price = state.price,
            !.index = ParseDatetime(state.index),
            !.trade_history =
                MapSeq(state.trade_history,
                       LAMBDA t : [t EXCEPT !.index = ParseDatetime(t.index)]),
            !.open_trade_list =
                MapSeq(state.open_trade_list,
                       LAMBDA t : [trade_time |-> ParseDatetime(t.trade_time),
                                   entry_price |-> t.entry_price,
                                   stop_level |-> t.stop_level,
                                   trailing_stop |-> t.trailing_stop,
                                   traded_level |-> t.traded_level,
                                   take_profit_level |-> t.take_profit_level,
                                   id |-> 0]),
            !.retrace_levels = state.retrace_levels,
            !.cumulative_pnl = state.cumulative_pnl,
            !.last_entry_time = ParseDatetime(Get("last_entry_time", PyNone)),
            !.entries_this_bar = Get("entries_this_bar", {}),
            !.last_bar_index = ParseDatetime(Get("last_bar_index", PyNone))]

\* load_state on an instance: unchanged when the store has no row.
load_state(s, db) ==
    IF s.has_persistence /\ s.name \in DOMAIN db.strategy_state
    THEN set_state(s, LoadedState(db, s.name))
    ELSE s

\* save_state: the store after the call.
save_state(s, db) ==
    IF s.has_persistence THEN save_strategy_state(db, s.name, get_state(s)) ELSE db

\* An error of the store that save_state passes on to update
Rethrown(raised) == raised

\* `except Exception as e:` of save_state: the error is logged and the call
\* returns.
Swallowed(raised) == FALSE

\* save_state when the store fails at write fail_at (0: no failure): the
\* store after the call and whether the call raised.
save_state_failing(inst, db, fail_at) ==
    IF ~inst.has_persistence THEN [db |-> db, raised |-> FALSE]
    ELSE LET r == CHOOSE r \in {save_strategy_state_failing(
                                    db, inst.name, get_state(inst), fail_at)} : TRUE
         IN  [db |-> r.db, raised |-> Swallowed(r.raised)]

\* The updates receive_signal and run_backtest make for one bar, strategy
\* after strategy from position i on, each with its own broker, and each
\* update ending with its save_state.  No call is wrapped: the first
\* update that raises ends the dispatch, and the strategies behind it do
\* not see the bar.
RECURSIVE UpdateAll(_, _, _, _, _, _, _, _)
UpdateAll(strategies, db, i, index, bar, last_price, plans, fail_ats) ==
    IF i > Len(strategies)
    THEN [strategies |-> strategies, db |-> db, raised |-> FALSE]
    ELSE LET x == CHOOSE r \in {update(strategies[i], index, bar.close, last_price,
                                       bar.high, bar.low, plans[i])} : TRUE
             updated == [strategies EXCEPT ![i] = x.s]
             saved == CHOOSE r \in {save_state_failing(x.s, db, fail_ats[i])} : TRUE
         IN  IF x.err
             THEN [strategies |-> updated, db |-> db, raised |-> TRUE]
             ELSE IF saved.raised
             THEN [strategies |-> updated, db |-> saved.db, raised |-> TRUE]
             ELSE UpdateAll(updated, saved.db, i + 1, index, bar, last_price,
                            plans, fail_ats)

\* ------------------------------------------------------------------------
\* State and actions
\* ------------------------------------------------------------------------
VARIABLES
    cfg,         \* constructor arguments of the strategy
    s,           \* the Strategy instance of the running process
    db,          \* the SQLite store
    last_price,  \* the dispatcher's last_price (main.py)
    outcome,     \* how the last call ended: "init", "first", "ok", "raised",
                 \* "restored", "unsaved" (returned, snapshot not stored),
                 \* "updating" (update done, handler not returned)
    ref,         \* after a restart: the instance as it would be without the restart
    feed,        \* the timestamps the bars of this run carry
    bars,        \* number of bars dispatched to the strategy so far
    ingest,      \* the webhook requests of the server: accepted, waiting, in flight
    persistence, \* the threads inside StatePersistence: its lock, a writer, a reader
    token_manager  \* the TokenManager: its token and its refresh thread

vars == <<cfg, s, db, last_price, outcome, ref, feed, bars, ingest, persistence,
          token_manager>>

NoRef == [live |-> FALSE]

\* The server before any request: requests are numbered in the order they
\* are accepted; queue holds the numbers of those whose handler has not
\* started, inflight the handlers that have started and not returned, begun
\* the numbers in the order their handlers started.
NoRequests == [accepted |-> 0, queue |-> << >>, inflight |-> << >>, begun |-> << >>]

\* One StatePersistence with no operation in progress: lock is the set of
\* threads inside `with self.lock`, writer the thread of the strategy
\* (update and save_state), reader a thread that calls load_strategy_state.
NoStoreOps ==
    [ lock |-> {},
      writer |-> [pc |-> "idle", close |-> None, pending |-> EmptyDb],
      reader |-> [pc |-> "idle", step |-> 0, result |-> PyNone, seen |-> {}],
      loads |-> 0 ]

\* TokenManager.__init__: no token, no refresh thread.  impl names the
\* module of the class (lib or app); issued counts the tokens the broker
\* has handed out, so a token is the number of its issue; ticks counts the
\* refresh attempts.  good and failed are history variables: the last token
\* obtained successfully and whether the last attempt failed.
NoTokenManager ==
    [ impl |-> "none", token |-> None, alive |-> FALSE, issued |-> 0,
      ticks |-> 0, good |-> None, failed |-> FALSE ]

Init ==
    /\ cfg \in RunConfigs
    /\ s = Strategy(cfg)
    /\ db = EmptyDb
    /\ last_price = None
    /\ outcome = "init"
    /\ ref = NoRef
    /\ feed \in Feeds
    /\ bars = 0
    /\ ingest = NoRequests
    /\ persistence = NoStoreOps
    /\ token_manager = NoTokenManager

\* receive_signal for the first bar: only its close is recorded.
ReceiveFirst ==
    /\ last_price = None
    /\ \E close \in Prices : last_price' = close
    /\ outcome' = "first"
    /\ UNCHANGED <<cfg, s, db, ref, feed, bars, ingest, persistence, token_manager>>

\* receive_signal for a later bar: Strategy.update with the bar, then the
\* snapshot (save_state) unless update raised, then last_price = close
\* unless update raised.  Bar times do not go backwards.  A broker failure
\* is planned only for a call the update makes (x.calls reaches plan.at).
\* After a restart the reference instance is fed the same call.
Dispatch ==
    /\ last_price # None
    /\ bars < MaxBars
    /\ bars' = bars + 1
    /\ \E index \in feed, bar \in Bars, plan \in BrokerPlans :
          /\ index >= s.index
          /\ \E x \in {update(s, index, bar.close, last_price, bar.high, bar.low, plan)} :
                /\ plan.at <= x.calls
                /\ s' = x.s
                /\ db' = IF x.err THEN db ELSE save_state(x.s, db)
                /\ last_price' = IF x.err THEN last_price ELSE bar.close
                /\ outcome' = IF x.err THEN "raised" ELSE "ok"
          /\ \E r \in {IF ref.live THEN ref.s ELSE s} :
                ref' = IF ref.live
                       THEN [ref EXCEPT !.s =
                                update(r, index, bar.close, last_price,
                                       bar.high, bar.low, plan).s]
                       ELSE ref
    /\ UNCHANGED <<cfg, feed, ingest, persistence, token_manager>>

\* After an update that returned, the process is stopped and started
\* again: save_state, a new instance with the same arguments and ladder,
\* load_state.
Restart ==
    /\ ~ref.live
    /\ outcome = "ok"
    /\ \E saved \in {save_state(s, db)}, fresh \in {Strategy(cfg)} :
          /\ db' = saved
          /\ s' = load_state(fresh, saved)
    /\ ref' = [live |-> TRUE, s |-> s]
    /\ outcome' = "restored"
    /\ UNCHANGED <<cfg, last_price, feed, bars, ingest, persistence, token_manager>>

Next == ReceiveFirst \/ Dispatch

Spec == Init /\ [][Next]_vars

NextRestore == ReceiveFirst \/ Dispatch \/ Restart

SpecRestore == Init /\ [][NextRestore]_vars

\* receive_signal for a later bar whose snapshot fails in the store: the
\* update has run, save_strategy_state rolls back and raises, save_state
\* deals with the error.
DispatchSaveFails ==
    /\ last_price # None
    /\ bars < MaxBars
    /\ bars' = bars + 1
    /\ \E index \in feed, bar \in Bars :
          /\ index >= s.index
          /\ \E x \in {update(s, index, bar.close, last_price, bar.high, bar.low,
                               NoFailure)} :
                /\ ~x.err
                /\ s' = x.s
                /\ \E fail_at \in SaveFailurePoints :
                      \E r \in {save_state_failing(x.s, db, fail_at)} :
                          /\ db' = r.db
                          /\ last_price' = IF r.raised THEN last_price ELSE bar.close
                          /\ outcome' = IF r.raised THEN "raised" ELSE "unsaved"
    /\ UNCHANGED <<cfg, feed, ref, ingest, persistence, token_manager>>

NextSaveFailure == ReceiveFirst \/ Dispatch \/ DispatchSaveFails

SpecSaveFailure == Init /\ [][NextSaveFailure]_vars

\* A worker thread is always there for the next request
ThreadFree(inflight) == TRUE

\* receive_signal is an `async def` without an await, run by the one event
\* loop of the one uvicorn worker: the loop starts the next handler when
\* the one before has returned.
LoopFree(inflight) == inflight = << >>

\* The handlers in flight without the one at position k.
Returned(inflight, k) ==
    [j \in 1..(Len(inflight) - 1) |-> IF j < k THEN inflight[j] ELSE inflight[j + 1]]

\* A webhook request arrives and is accepted by the server.
Accept ==
    /\ ingest.accepted < MaxRequests
    /\ ingest' = [ingest EXCEPT !.accepted = @ + 1,
                                !.queue = Append(@, ingest.accepted + 1)]
    /\ UNCHANGED <<cfg, s, db, last_price, outcome, ref, feed, bars, persistence, token_manager>>

\* The server calls receive_signal for the request that waited longest.
BeginHandler ==
    /\ ingest.queue # << >>
    /\ LoopFree(ingest.inflight)
    /\ ingest' = [ingest EXCEPT
                      !.queue = Tail(@),
                      !.inflight = Append(@, [n |-> Head(ingest.queue),
                                              pc |-> "start", close |-> None]),
                      !.begun = Append(@, Head(ingest.queue))]
    /\ UNCHANGED <<cfg, s, db, last_price, outcome, ref, feed, bars, persistence, token_manager>>

\* receive_signal with last_price None: the close is recorded and the
\* handler returns.
HandlerFirst(k) ==
    /\ ingest.inflight[k].pc = "start"
    /\ last_price = None
    /\ \E close \in Prices : last_price' = close
    /\ outcome' = "first"
    /\ ingest' = [ingest EXCEPT !.inflight = Returned(@, k)]
    /\ UNCHANGED <<cfg, s, db, ref, feed, bars, persistence, token_manager>>

\* Strategy.update of a handler up to its save_state; an exception ends
\* the handler.
HandlerUpdate(k) ==
    /\ ingest.inflight[k].pc = "start"
    /\ last_price # None
    /\ bars' = bars + 1
    /\ \E index \in feed, bar \in Bars, plan \in BrokerPlans :
          /\ index >= s.index
          /\ \E x \in {update(s, index, bar.close, last_price, bar.high, bar.low, plan)} :
                /\ plan.at <= x.calls
                /\ s' = x.s
                /\ outcome' = IF x.err THEN "raised" ELSE "updating"
                /\ ingest' = [ingest EXCEPT
                                  !.inflight =
                                      IF x.err THEN Returned(@, k)
                                      ELSE [@ EXCEPT ![k].pc = "save",
                                                     ![k].close = bar.close]]
    /\ UNCHANGED <<cfg, db, last_price, ref, feed, persistence, token_manager>>

\* save_state at the end of the update of a handler.
HandlerSave(k) ==
    /\ ingest.inflight[k].pc = "save"
    /\ \E saved \in {save_state(s, db)} : db' = saved
    /\ ingest' = [ingest EXCEPT !.inflight[k].pc = "finish"]
    /\ UNCHANGED <<cfg, s, last_price, outcome, ref, feed, bars, persistence, token_manager>>

\* `last_price = signal.close` and the return of a handler.
HandlerFinish(k) ==
    /\ ingest.inflight[k].pc = "finish"
    /\ last_price' = ingest.inflight[k].close
    /\ outcome' = "ok"
    /\ ingest' = [ingest EXCEPT !.inflight = Returned(@, k)]
    /\ UNCHANGED <<cfg, s, db, ref, feed, bars, persistence, token_manager>>

NextIngest ==
    \/ Accept
    \/ BeginHandler
    \/ \E k \in 1..Len(ingest.inflight) :
          HandlerFirst(k) \/ HandlerUpdate(k) \/ HandlerSave(k) \/ HandlerFinish(k)

SpecIngest == Init /\ [][NextIngest]_vars

\* A store without mutual exclusion
NeverLocked(lock) == TRUE

\* threading.Lock: `with self.lock` is entered when no thread is inside.
LockFree(lock) == lock = {}

\* The keys load_strategy_state fills with each of its SELECTs, in order.
LoadFields ==
    << {"open_trade_count", "total_pnl", "price", "index"},
       {"trade_history"}, {"open_trade_list"}, {"retrace_levels"},
       {"cumulative_pnl"} >>

\* The strategy's thread: Strategy.update up to its save_state.
StoreUpdate ==
    /\ persistence.writer.pc = "idle"
    /\ last_price # None
    /\ bars < MaxStoreBars
    /\ bars' = bars + 1
    /\ \E index \in feed, bar \in Bars, plan \in BrokerPlans :
          /\ index >= s.index
          /\ \E x \in {update(s, index, bar.close, last_price, bar.high, bar.low, plan)} :
                /\ plan.at <= x.calls
                /\ s' = x.s
                /\ outcome' = IF x.err THEN "raised" ELSE "updating"
                /\ persistence' = IF x.err THEN persistence
                            ELSE [persistence EXCEPT !.writer.pc = "wait",
                                               !.writer.close = bar.close]
    /\ UNCHANGED <<cfg, db, last_price, ref, feed, ingest, token_manager>>

\* save_strategy_state enters `with self.lock` and connects.
SaveAcquire ==
    /\ persistence.writer.pc = "wait"
    /\ LockFree(persistence.lock)
    /\ persistence' = [persistence EXCEPT !.lock = @ \cup {"writer"}, !.writer.pc = "write"]
    /\ UNCHANGED <<cfg, s, db, last_price, outcome, ref, feed, bars, ingest, token_manager>>

\* The writes of save_strategy_state, inside its transaction.
SaveWrite ==
    /\ persistence.writer.pc = "write"
    /\ \E pending \in {save_state(s, db)} :
          persistence' = [persistence EXCEPT !.writer.pc = "commit", !.writer.pending = pending]
    /\ UNCHANGED <<cfg, s, db, last_price, outcome, ref, feed, bars, ingest, token_manager>>

\* conn.commit(), the end of `with self.lock`, and the return of update
\* to the dispatcher.  A load in progress has now seen one more store.
SaveCommit ==
    /\ persistence.writer.pc = "commit"
    /\ db' = persistence.writer.pending
    /\ last_price' = persistence.writer.close
    /\ outcome' = "ok"
    /\ persistence' = [persistence EXCEPT
                     !.lock = @ \ {"writer"},
                     !.writer = NoStoreOps.writer,
                     !.reader.seen = IF persistence.reader.pc = "read"
                                     THEN @ \cup {persistence.writer.pending} ELSE @]
    /\ UNCHANGED <<cfg, s, ref, feed, bars, ingest, token_manager>>

\* load_strategy_state enters `with self.lock` and connects.
LoadAcquire ==
    /\ persistence.reader.pc = "idle"
    /\ persistence.loads < MaxLoads
    /\ LockFree(persistence.lock)
    /\ persistence' = [persistence EXCEPT !.lock = @ \cup {"reader"},
                              !.loads = @ + 1,
                              !.reader = [pc |-> "read", step |-> 1,
                                          result |-> PyNone, seen |-> {db}]]
    /\ UNCHANGED <<cfg, s, db, last_price, outcome, ref, feed, bars, ingest, token_manager>>

\* One SELECT of load_strategy_state on the committed store; the first
\* returns None when strategy_state has no row, the last ends the load.
LoadRead ==
    /\ persistence.reader.pc = "read"
    /\ \E k \in {persistence.reader.step} :
          IF k = 1 /\ s.name \notin DOMAIN db.strategy_state
          THEN persistence' = [persistence EXCEPT !.lock = @ \ {"reader"},
                                      !.reader.pc = "done"]
          ELSE \E loaded \in {LoadedState(db, s.name)} :
                  persistence' = [persistence EXCEPT
                      !.lock = IF k = Len(LoadFields) THEN @ \ {"reader"} ELSE @,
                      !.reader.pc = IF k = Len(LoadFields) THEN "done" ELSE "read",
                      !.reader.step = k + 1,
                      !.reader.result =
                          [f \in (IF k = 1 THEN {} ELSE DOMAIN @) \cup LoadFields[k] |->
                              IF f \in LoadFields[k] THEN loaded[f] ELSE @[f]]]
    /\ UNCHANGED <<cfg, s, db, last_price, outcome, ref, feed, bars, ingest, token_manager>>

\* load_strategy_state has returned; its caller takes the result.
LoadReturn ==
    /\ persistence.reader.pc = "done"
    /\ persistence' = [persistence EXCEPT !.reader = NoStoreOps.reader]
    /\ UNCHANGED <<cfg, s, db, last_price, outcome, ref, feed, bars, ingest, token_manager>>

NextStore ==
    \/ ReceiveFirst
    \/ StoreUpdate
    \/ SaveAcquire
    \/ SaveWrite
    \/ SaveCommit
    \/ LoadAcquire
    \/ LoadRead
    \/ LoadReturn

SpecStore == Init /\ [][NextStore]_vars

\* get_token
get_token(tm) == tm.token

\* One pass of _refresh_token_loop of lib/token_manager.py after its sleep:
\* renew_access_token under try/except inside the lock; a failure is
\* printed and the loop goes back to sleep.
RefreshLib(tm, ok) ==
    IF ok
    THEN [tm EXCEPT !.ticks = @ + 1, !.issued = @ + 1, !.token = tm.issued + 1,
                    !.good = tm.issued + 1, !.failed = FALSE]
    ELSE [tm EXCEPT !.ticks = @ + 1, !.failed = TRUE]

\* One pass of _refresh_token_loop of app/token_manager.py after its sleep:
\* get_access_token inside the lock with no handler; its exception leaves
\* the loop and ends the thread.
RefreshApp(tm, ok) ==
    IF ok
    THEN [tm EXCEPT !.ticks = @ + 1, !.issued = @ + 1, !.token = tm.issued + 1,
                    !.good = tm.issued + 1, !.failed = FALSE]
    ELSE [tm EXCEPT !.ticks = @ + 1, !.failed = TRUE, !.alive = FALSE]

\* TokenManager.start of either module: the first token is requested on
\* the caller's thread; when the request raises, start raises and no
\* refresh thread exists.
TokenStart ==
    /\ token_manager.impl = "none"
    /\ \E impl \in {"lib", "app"}, ok \in BOOLEAN :
          token_manager' =
              IF ok
              THEN [token_manager EXCEPT !.impl = impl, !.token = 1, !.good = 1,
                                         !.issued = 1, !.alive = TRUE]
              ELSE [token_manager EXCEPT !.impl = impl, !.failed = TRUE]
    /\ UNCHANGED <<cfg, s, db, last_price, outcome, ref, feed, bars, ingest, persistence>>

\* The refresh thread wakes from time.sleep(refresh_interval).
RefreshTick ==
    /\ token_manager.alive
    /\ token_manager.ticks < MaxTicks
    /\ \E ok \in BOOLEAN :
          token_manager' = IF token_manager.impl = "lib"
                           THEN RefreshLib(token_manager, ok)
                           ELSE RefreshApp(token_manager, ok)
    /\ UNCHANGED <<cfg, s, db, last_price, outcome, ref, feed, bars, ingest, persistence>>

NextToken == TokenStart \/ RefreshTick

SpecToken == Init /\ [][NextToken]_vars

\* ------------------------------------------------------------------------
\* Properties
\* ------------------------------------------------------------------------
EntryKinds == {"BUY", "SELL"}

ExitKinds == {"EXIT", "FLATTEN"}

RECURSIVE SumPnl(_)
SumPnl(history) ==
    IF history = << >> THEN 0
    ELSE (IF Head(history).kind \in ExitKinds THEN Head(history).pnl ELSE 0)
             + SumPnl(Tail(history))

\* C1: after every call of update that returns, open_trade_count equals
\* len(open_trade_list).  The statement as claimed; it does not hold.
C1_CountMatchesList ==
    outcome = "ok" => s.open_trade_count = Len(s.open_trade_list)

\* C2: total_pnl equals the sum of the pnl of the EXIT and FLATTEN records
\* of the history (BUY and SELL records count 0), in every state.
C2_TotalPnlIsSumOfExits ==
    s.total_pnl = SumPnl(s.trade_history)

\* An update has returned with closed trades of non-zero pnl in the history.
C2_Witness ==
    /\ outcome = "ok"
    /\ \E k \in 1..Len(s.trade_history) :
          s.trade_history[k].kind = "EXIT" /\ s.trade_history[k].pnl # 0
    /\ \E k \in 1..Len(s.trade_history) :
          s.trade_history[k].kind = "FLATTEN" /\ s.trade_history[k].pnl # 0

\* C3: after save_state, a new instance and load_state, the restored
\* instance fed the same later bars has the same trade history,
\* cumulative_pnl and totals as the instance that was never restarted.  The
\* statement as claimed; it does not hold.
C3_RestoreEquivalent ==
    ref.live =>
        /\ s.trade_history = ref.s.trade_history
        /\ s.cumulative_pnl = ref.s.cumulative_pnl
        /\ s.total_pnl = ref.s.total_pnl

\* C4 as claimed: no two BUY/SELL records carry the same bar timestamp and
\* the same triggering ladder index.  It does not hold: one firing with
\* max_contracts_per_trade > 1 appends several such records.
C4_NoTwoEntriesSameBarSameLevel ==
    \A i, j \in 1..Len(s.entry_log) :
        i # j => ~(/\ s.entry_log[i].index = s.entry_log[j].index
                   /\ s.entry_log[i].level_idx = s.entry_log[j].level_idx)

\* C4: BUY/SELL records appended by different firings of the entry rule
\* never carry the same bar timestamp together with the same triggering
\* ladder index.
C4_NoTwoFiringsSameBarSameLevel ==
    \A i, j \in 1..Len(s.entry_log) :
        s.entry_log[i].fire # s.entry_log[j].fire =>
            ~(/\ s.entry_log[i].index = s.entry_log[j].index
              /\ s.entry_log[i].level_idx = s.entry_log[j].level_idx)

\* The history holds the records of two firings at the same ladder index,
\* one of which appended two records for its bar.
C4_Witness ==
    \E i, j, k \in 1..Len(s.entry_log) :
        /\ i # j
        /\ s.entry_log[i].fire = s.entry_log[j].fire
        /\ s.entry_log[k].fire # s.entry_log[i].fire
        /\ s.entry_log[k].level_idx = s.entry_log[i].level_idx

\* C5 as claimed: consecutive BUY/SELL records are at least
\* MIN_ENTRY_INTERVAL_MINUTES of bar time apart.  It does not hold: the
\* records of one firing share their bar timestamp.
C5_ConsecutiveEntriesFiveMinutesApart ==
    \A k \in 1..(Len(s.entry_log) - 1) :
        s.entry_log[k + 1].index - s.entry_log[k].index >= MIN_ENTRY_INTERVAL_MINUTES

\* C5: consecutive BUY/SELL records appended by different firings of the
\* entry rule are at least MIN_ENTRY_INTERVAL_MINUTES of bar time apart.
C5_ConsecutiveFiringsFiveMinutesApart ==
    \A k \in 1..(Len(s.entry_log) - 1) :
        s.entry_log[k + 1].fire # s.entry_log[k].fire =>
            s.entry_log[k + 1].index - s.entry_log[k].index
                >= MIN_ENTRY_INTERVAL_MINUTES

\* Two firings exactly MIN_ENTRY_INTERVAL_MINUTES apart have both entered,
\* in a run that has dispatched MaxBars bars.
C5_Witness ==
    /\ \E k \in 1..(Len(s.entry_log) - 1) :
          /\ s.entry_log[k + 1].fire # s.entry_log[k].fire
          /\ s.entry_log[k + 1].index - s.entry_log[k].index
                = MIN_ENTRY_INTERVAL_MINUTES
    /\ bars = MaxBars

IsLongTrade(trade) == trade.entry_price < trade.take_profit_level

\* C6: from one update to the next, the trailing stop of a trade that stays
\* open, once set, stays set and never decreases for a long trade and
\* never increases for a short trade.
C6_TrailingStopMonotonic ==
    [][ \A i \in 1..Len(s.open_trade_list), j \in 1..Len(s'.open_trade_list) :
            (/\ s.open_trade_list[i].id = s'.open_trade_list[j].id
             /\ s.open_trade_list[i].trailing_stop # None)
            => /\ s'.open_trade_list[j].trailing_stop # None
               /\ IF IsLongTrade(s.open_trade_list[i])
                  THEN s'.open_trade_list[j].trailing_stop
                           >= s.open_trade_list[i].trailing_stop
                  ELSE s'.open_trade_list[j].trailing_stop
                           <= s.open_trade_list[i].trailing_stop ]_vars

\* An open trade whose trailing stop has moved past the level it was armed
\* at: above it for a long trade, below it for a short one.
C6_Witness ==
    \E i \in 1..Len(s.open_trade_list) :
        LET trade == s.open_trade_list[i]
            index_of_level == IndexOfLevel(trade.traded_level)
        IN  /\ trade.trailing_stop # None
            /\ IF IsLongTrade(trade)
               THEN trade.trailing_stop
                        > static_levels[index_of_level + s.trail_trigger]
               ELSE trade.trailing_stop
                        < static_levels[index_of_level - s.trail_trigger]

\* C7 as claimed: in every state, with n the length of open_trade_list,
\* flatten_all_positions appends n FLATTEN records priced at the current
\* close and n cumulative_pnl points, and leaves open_trade_list empty and
\* open_trade_count 0.  It does not hold in the states C1 fails in.
C7_FlattenClosesEveryTrade ==
    s.index # None =>
        LET n == Len(s.open_trade_list)
            y == flatten_all_positions(Running(s, last_price, s.price, s.price),
                                       NoFailure).s
            before == Len(s.trade_history)
        IN  /\ Len(y.trade_history) = before + n
            /\ \A k \in (before + 1)..Len(y.trade_history) :
                  /\ y.trade_history[k].kind = "FLATTEN"
                  /\ y.trade_history[k].price = s.price
            /\ Len(y.cumulative_pnl) = Len(s.cumulative_pnl) + n
            /\ y.open_trade_list = << >>
            /\ y.open_trade_count = 0

\* Saturday, and Sunday before the reopen
Weekend(dt) ==
    \/ Weekday(dt) = 5
    \/ Weekday(dt) = 6 /\ TimeOf(dt) < 17 * 60

\* C8: with trading hours enforced, an update whose bar time is classified
\* FLATTEN_WINDOW or CLOSED, or lies on Saturday or on Sunday before 17:00,
\* appends no BUY or SELL record and adds no open trade.
C8_NoEntryOutsideOpenHours ==
    [][ (/\ bars' = bars + 1
         /\ s.use_trading_hours
         /\ \/ get_trading_status(s'.index) \in {"FLATTEN_WINDOW", "CLOSED"}
            \/ Weekend(s'.index))
        => /\ \A k \in (Len(s.trade_history) + 1)..Len(s'.trade_history) :
                  s'.trade_history[k].kind \notin EntryKinds
           /\ \A j \in 1..Len(s'.open_trade_list) :
                  \E i \in 1..Len(s.open_trade_list) :
                      s.open_trade_list[i].id = s'.open_trade_list[j].id ]_vars

\* Updates have returned for bars in the flatten window, in closed hours of
\* a weekday and at the weekend, after an entry was filled in open hours,
\* with the annotation that entry rule needs still set.
C8_Witness ==
    /\ outcome = "ok"
    /\ bars = MaxBars
    /\ s.entry_log # << >>
    /\ \/ get_trading_status(s.index) = "FLATTEN_WINDOW"
       \/ Weekend(s.index)
    /\ \E i \in LevelIdx :
          s.retrace_levels[i] = (IF s.is_trading_long THEN "down" ELSE "up")

\* C9 as claimed: once the history holds a FLATTEN record of an
\* exchange-local date, no later update with a bar of that date appends a
\* FLATTEN record.  It does not hold.
C9_FlattenOncePerDate ==
    [][ (/\ bars' = bars + 1
         /\ \E k \in 1..Len(s.trade_history) :
               /\ s.trade_history[k].kind = "FLATTEN"
               /\ DateOf(ToChicagoTime(s.trade_history[k].index))
                      = DateOf(ToChicagoTime(s'.index)))
        => \A k \in (Len(s.trade_history) + 1)..Len(s'.trade_history) :
               s'.trade_history[k].kind # "FLATTEN" ]_vars

\* The bar touches the level with its high or its low, and its range does
\* not cross the level downward (close <= L < high) or upward
\* (close >= L > low).
TouchesWithoutCrossing(bar, level) ==
    /\ bar.high = level \/ bar.low = level
    /\ ~(bar.close <= level /\ level < bar.high)
    /\ ~(bar.close >= level /\ level > bar.low)

\* The bars the dispatcher can pass to update in the current state.
NextBars ==
    IF last_price = None THEN {}
    ELSE { ib \in feed \X Bars : ib[1] >= s.index }

\* C10 as claimed: an update with a bar that touches a level without
\* crossing it leaves the annotation of that level unchanged.  It does not
\* hold: an entry fired by the same update consumes the annotation.
C10_TouchLeavesAnnotation ==
    \A ib \in NextBars, i \in LevelIdx :
        TouchesWithoutCrossing(ib[2], static_levels[i]) =>
            LET y == update(s, ib[1], ib[2].close, last_price, ib[2].high,
                            ib[2].low, NoFailure).s
            IN  y.retrace_levels[i] = s.retrace_levels[i]

\* C10: an update with a bar that touches a level without crossing it does
\* not set the annotation of that level: the annotation is unchanged, or an
\* entry fired by this update has consumed it and it is NONE.
C10_TouchDoesNotSetAnnotation ==
    \A ib \in NextBars, i \in LevelIdx :
        TouchesWithoutCrossing(ib[2], static_levels[i]) =>
            LET y == update(s, ib[1], ib[2].close, last_price, ib[2].high,
                            ib[2].low, NoFailure).s
            IN  \/ y.retrace_levels[i] = s.retrace_levels[i]
                \/ y.retrace_levels[i] = "none" /\ y.fires > s.fires

\* After an update has set the annotation of a level, bars in open hours
\* touch that level without crossing it, one with its high and one with
\* its low, and the update leaves the annotation as it is; and another
\* such bar fires an entry that consumes it.
C10_Witness ==
    \E i \in LevelIdx :
        /\ outcome = "ok"
        /\ s.retrace_levels[i] # "none"
        /\ \A side \in {"high", "low"} :
              \E ib \in NextBars :
                  /\ TouchesWithoutCrossing(ib[2], static_levels[i])
                  /\ IF side = "high" THEN ib[2].high = static_levels[i]
                                      ELSE ib[2].low = static_levels[i]
                  /\ get_trading_status(ib[1]) = "OPEN"
                  /\ update(s, ib[1], ib[2].close, last_price, ib[2].high,
                            ib[2].low, NoFailure).s.retrace_levels[i]
                         = s.retrace_levels[i]
        /\ \E ib \in NextBars :
              /\ TouchesWithoutCrossing(ib[2], static_levels[i])
              /\ update(s, ib[1], ib[2].close, last_price, ib[2].high,
                            ib[2].low, NoFailure).s.retrace_levels[i] = "none"

\* C11 as claimed: in every state the number of open trades of the
\* strategy is at most max_open_trades.  It does not hold: the cap is
\* tested once per update, before the entry loops, and one firing then
\* opens max_contracts_per_trade trades.
C11_OpenTradesWithinCap ==
    /\ Len(s.open_trade_list) <= s.max_open_trades
    /\ s.open_trade_count <= s.max_open_trades

\* The records of a loaded trade_history with each timestamp text parsed
\* as set_state parses it.
ParsedHistory(trade_history) ==
    MapSeq(trade_history, LAMBDA t : [t EXCEPT !.index = ParseDatetime(t.index)])

\* C12: a save of a state whose trade_history and cumulative_pnl extend the
\* ones saved before stores only the new records: load_strategy_state then
\* returns the latest trade_history (timestamps as their text) and the
\* latest cumulative_pnl, in insertion order, nothing twice and nothing
\* missing.  Checked for the save after every next bar in every reachable
\* state, and for the store of every state an update has returned in.
C12_IncrementalSaveLoadsLatest ==
    /\ outcome = "ok" =>
          /\ ParsedHistory(LoadedState(db, s.name).trade_history) = s.trade_history
          /\ LoadedState(db, s.name).cumulative_pnl = s.cumulative_pnl
    /\ \A ib \in NextBars :
          \E x \in {update(s, ib[1], ib[2].close, last_price, ib[2].high,
                           ib[2].low, NoFailure)} :
              ~x.err =>
                  \E loaded \in {LoadedState(save_state(x.s, db), s.name)} :
                      /\ ParsedHistory(loaded.trade_history) = x.s.trade_history
                      /\ loaded.cumulative_pnl = x.s.cumulative_pnl

\* The store holds history and cumulative_pnl rows of earlier saves, and a
\* next bar appends records to both lists, which the save after it adds to
\* the stored rows.
C12_Witness ==
    /\ outcome = "ok"
    /\ Len(RowsOf(db.trade_history, s.name)) >= 2
    /\ Len(RowsOf(db.cumulative_pnl, s.name)) >= 1
    /\ \E ib \in NextBars :
          \E x \in {update(s, ib[1], ib[2].close, last_price, ib[2].high,
                           ib[2].low, NoFailure)} :
              /\ ~x.err
              /\ Len(x.s.trade_history) > Len(s.trade_history)
              /\ Len(x.s.cumulative_pnl) > Len(s.cumulative_pnl)
              /\ Len(RowsOf(save_state(x.s, db).trade_history, s.name))
                     = Len(x.s.trade_history)

\* A second strategy registered with the same store
OtherName == "S2"

\* Every stored row of a strategy, table by table.
StoredRows(store, strategy_name) ==
    [ strategy_state |->
          {store.strategy_state[k] : k \in DOMAIN store.strategy_state \cap {strategy_name}},
      trade_history |-> RowsOf(store.trade_history, strategy_name),
      open_trades |-> RowsOf(store.open_trades, strategy_name),
      retrace_levels |->
          [key \in {k \in DOMAIN store.retrace_levels : k[1] = strategy_name} |->
              store.retrace_levels[key]],
      cumulative_pnl |-> RowsOf(store.cumulative_pnl, strategy_name),
      static_levels |->
          [key \in {k \in DOMAIN store.static_levels : k[1] = strategy_name} |->
              store.static_levels[key]] ]

\* C13: save_strategy_state for one strategy leaves every stored row of
\* another strategy unchanged, and load_strategy_state of the other returns
\* the same state before and after.  Checked in every reachable state with
\* the other strategy stored under OtherName with the rows of the current
\* instance, for the save after every next bar, and for the first save of
\* the other strategy next to the stored one.
C13_SaveLeavesOtherStrategy ==
    \E both \in {save_strategy_state(db, OtherName, get_state(s))} :
        /\ s.name \in DOMAIN db.strategy_state =>
              /\ StoredRows(both, s.name) = StoredRows(db, s.name)
              /\ LoadedState(both, s.name) = LoadedState(db, s.name)
        /\ \A ib \in NextBars :
              \E x \in {update(s, ib[1], ib[2].close, last_price, ib[2].high,
                               ib[2].low, NoFailure)} :
                  ~x.err =>
                      \E after \in {save_state(x.s, both)} :
                          /\ StoredRows(after, OtherName) = StoredRows(both, OtherName)
                          /\ LoadedState(after, OtherName) = LoadedState(both, OtherName)

\* The other strategy is stored with open trades, history and cumulative
\* pnl, and a next bar changes the open trades, the history and the
\* annotations of the saved strategy.
C13_Witness ==
    /\ outcome = "ok"
    /\ s.open_trade_list # << >>
    /\ s.cumulative_pnl # << >>
    /\ RowsOf(db.open_trades, s.name) # << >>
    /\ \E ib \in NextBars :
          \E x \in {update(s, ib[1], ib[2].close, last_price, ib[2].high,
                           ib[2].low, NoFailure)} :
              /\ ~x.err
              /\ x.s.open_trade_list # s.open_trade_list
              /\ Len(x.s.trade_history) > Len(s.trade_history)
              /\ x.s.retrace_levels # s.retrace_levels
              /\ StoredRows(save_state(x.s, db), s.name) # StoredRows(db, s.name)

\* C14: after delete_strategy_state(name), list_strategies does not contain
\* name, load_strategy_state(name) returns None, no row of name remains in
\* any of the six tables, and the rows and the loaded state of another
\* strategy are unchanged; load_strategy_state of a name never saved
\* returns None.  Checked in every reachable state with a second strategy
\* stored next to the running one.
C14_DeleteRemovesStrategy ==
    /\ load_strategy_state(db, OtherName) = PyNone
    /\ \E both \in {save_strategy_state(db, OtherName, get_state(s))} :
          \E after \in {delete_strategy_state(both, s.name)} :
              /\ s.name \notin list_strategies(after)
              /\ load_strategy_state(after, s.name) = PyNone
              /\ StoredRows(after, s.name) = StoredRows(EmptyDb, s.name)
              /\ StoredRows(after, OtherName) = StoredRows(both, OtherName)
              /\ load_strategy_state(after, OtherName)
                     = load_strategy_state(both, OtherName)
              /\ OtherName \in list_strategies(after)

\* The deleted strategy has rows in all six tables.
C14_Witness ==
    /\ outcome = "ok"
    /\ s.name \in list_strategies(db)
    /\ RowsOf(db.trade_history, s.name) # << >>
    /\ RowsOf(db.open_trades, s.name) # << >>
    /\ RowsOf(db.cumulative_pnl, s.name) # << >>
    /\ StoredRows(db, s.name).retrace_levels # << >>
    /\ StoredRows(db, s.name).static_levels # << >>
    /\ load_strategy_state(db, s.name) # PyNone

\* The scalar fields, the open trades (in order) and the annotations of a
\* loaded state are those of the instance it was saved from; a timestamp
\* is loaded as its text and compared after the parse of set_state.
SnapshotOf(loaded, inst) ==
    /\ loaded.open_trade_count = inst.open_trade_count
    /\ loaded.total_pnl = inst.total_pnl
    /\ loaded.price = inst.price
    /\ ParseDatetime(loaded.index) = inst.index
    /\ Len(loaded.open_trade_list) = Len(inst.open_trade_list)
    /\ \A k \in 1..Len(loaded.open_trade_list) :
          SameTrade([loaded.open_trade_list[k] EXCEPT
                         !.trade_time = ParseDatetime(@)],
                    inst.open_trade_list[k])
    /\ loaded.retrace_levels = inst.retrace_levels

\* C15: after a save, load_strategy_state returns the scalar fields, the
\* open trades (same trades, same order) and the annotations of the state
\* saved last; an open trade stored by an earlier save and absent from the
\* latest is not returned.  Checked for a save in every reachable state
\* (the save at shutdown) and for the save after every next bar.
C15_LoadReturnsLatestSnapshot ==
    /\ \E saved \in {save_state(s, db)} :
          SnapshotOf(load_strategy_state(saved, s.name), s)
    /\ outcome = "ok" => SnapshotOf(load_strategy_state(db, s.name), s)
    /\ \A ib \in NextBars :
          \E x \in {update(s, ib[1], ib[2].close, last_price, ib[2].high,
                           ib[2].low, NoFailure)} :
              ~x.err =>
                  SnapshotOf(load_strategy_state(save_state(x.s, db), s.name), x.s)

\* The store holds open trades of the last save, with a trailing stop set,
\* and a next bar closes a trade, changes the scalars and the annotations.
C15_Witness ==
    /\ outcome = "ok"
    /\ \E k \in 1..Len(s.open_trade_list) : s.open_trade_list[k].trailing_stop # None
    /\ Len(RowsOf(db.open_trades, s.name)) = Len(s.open_trade_list)
    /\ \E ib \in NextBars :
          \E x \in {update(s, ib[1], ib[2].close, last_price, ib[2].high,
                           ib[2].low, NoFailure)} :
              /\ ~x.err
              /\ Len(x.s.open_trade_list) < Len(s.open_trade_list)
              /\ x.s.total_pnl # s.total_pnl
              /\ x.s.price # s.price
              /\ x.s.retrace_levels # s.retrace_levels

\* C16: when a write or the commit of save_strategy_state fails, the
\* transaction is rolled back and the error is raised: the store, with the
\* rows of every strategy, is what it was before the call.  Checked in
\* every reachable state with a second strategy stored, for the save after
\* every next bar and every point of failure.
C16_FailedSaveChangesNothing ==
    \E both \in {save_strategy_state(db, OtherName, get_state(s))} :
        \A ib \in NextBars :
            \E x \in {update(s, ib[1], ib[2].close, last_price, ib[2].high,
                             ib[2].low, NoFailure)} :
                ~x.err =>
                    \A fail_at \in SaveFailurePoints :
                        \E r \in {save_strategy_state_failing(both, s.name,
                                                              get_state(x.s), fail_at)} :
                            /\ r.raised
                            /\ r.db = both

\* A save fails in its commit after it has written new rows to the
\* strategy_state, trade_history, open_trades and cumulative_pnl tables of a
\* strategy stored before.
C16_Witness ==
    /\ outcome = "ok"
    /\ s.name \in list_strategies(db)
    /\ \E ib \in NextBars :
          \E x \in {update(s, ib[1], ib[2].close, last_price, ib[2].high,
                           ib[2].low, NoFailure)} :
              \E pending \in {PendingSave(db, s.name, get_state(x.s), Len(SaveTables))} :
                  /\ ~x.err
                  /\ pending.strategy_state # db.strategy_state
                  /\ pending.trade_history # db.trade_history
                  /\ pending.open_trades # db.open_trades
                  /\ pending.cumulative_pnl # db.cumulative_pnl
                  /\ save_strategy_state_failing(db, s.name, get_state(x.s),
                                                 Len(SaveTables) + 1).raised

\* The bookkeeping of entries: the fields a filled entry order changes.
EntryBooks(inst) ==
    [ open_trade_list |-> inst.open_trade_list,
      trade_history |-> inst.trade_history,
      open_trade_count |-> inst.open_trade_count,
      entries_this_bar |-> inst.entries_this_bar,
      last_entry_time |-> inst.last_entry_time ]

\* C17: an entry order the broker does not fill (enter_position raises, or
\* answers with an empty body) adds no trade to open_trade_list, appends no
\* BUY/SELL record and leaves open_trade_count, entries_this_bar and
\* last_entry_time as they are.  Checked in every reachable state of a
\* strategy with a broker, at every ladder level, for the order of a firing
\* that fails as the first and as a later one of its contracts: the
\* bookkeeping is that of the filled orders before it.
C17_UnfilledEntryNotRecorded ==
    (s.has_trader /\ s.index # None) =>
        \A level_idx \in LevelIdx, k \in 1..s.max_contracts_per_trade,
           kind \in {"raise", "empty"} :
            \E x \in {Running(s, last_price, s.price, s.price)} :
                \E y \in {EnterContracts(x, level_idx, k, [at |-> k, kind |-> kind])},
                   filled \in {EnterContracts(x, level_idx, k - 1, NoFailure)} :
                    /\ y.calls = k
                    /\ y.err = (kind = "raise")
                    /\ EntryBooks(y.s) = EntryBooks(filled.s)
                    /\ k = 1 => EntryBooks(y.s) = EntryBooks(s)

\* An update has been aborted by the HTTP error of the first entry order
\* of the run: the entry rule fired, and there is no entry record, no open
\* trade and no entry time.
C17_Witness ==
    /\ s.has_trader
    /\ outcome = "raised"
    /\ s.fires = 1
    /\ s.entry_log = << >>
    /\ s.trade_history = << >>
    /\ s.open_trade_list = << >>
    /\ s.open_trade_count = 0
    /\ s.entries_this_bar = {}
    /\ s.last_entry_time = None

\* A second strategy with the arguments of the first, registered behind it
\* and not yet updated.
Sibling == Strategy([cfg EXCEPT !.name = OtherName])

\* C18 as claimed: when the update of one strategy raises while a bar is
\* dispatched, the other registered strategy still receives the update of
\* that bar.  Stated for the first bar dispatched to two new instances, the
\* broker of the first failing.  It does not hold.
C18_SiblingStillUpdated ==
    (bars = 0 /\ last_price # None) =>
        \A index \in feed, bar \in Bars, plan \in BrokerPlans :
            \E r \in {UpdateAll(<<s, Sibling>>, db, 1, index, bar, last_price,
                                <<plan, NoFailure>>, <<0, 0>>)} :
                r.raised =>
                    r.strategies[2]
                        = update(Sibling, index, bar.close, last_price,
                                 bar.high, bar.low, NoFailure).s

\* The price fields of a bar one of which can be null
PriceFields == {"close", "prev_close", "high", "low"}

\* update for a bar whose named price field is null.
UpdateWithNull(inst, index, bar, prev_close, field) ==
    update(inst, index,
           IF field = "close" THEN None ELSE bar.close,
           IF field = "prev_close" THEN None ELSE prev_close,
           IF field = "high" THEN None ELSE bar.high,
           IF field = "low" THEN None ELSE bar.low,
           NoFailure)

\* C19 as claimed: update with a null close, previous close, high or low
\* raises and changes nothing of the strategy.  It does not hold for the
\* low, which the check at the head of update leaves out.
C19_NullPriceRejected ==
    \A ib \in NextBars, field \in PriceFields :
        \E x \in {UpdateWithNull(s, ib[1], ib[2], last_price, field)} :
            /\ x.err
            /\ x.s = s

\* C20: a failure of the store during the snapshot at the end of update
\* does not drop the bar: update returns with the instance updated for the
\* bar, the store keeps the last snapshot that was stored, and the
\* dispatcher goes on to update and store the strategy behind it.  Checked
\* for every next bar and every point of failure in every state of runs in
\* which snapshots fail, so also for the bars that follow a failure; the
\* dispatch to two strategies is checked for the first bar they receive.
C20_SaveFailureKeepsBar ==
    /\ \A ib \in NextBars :
          \E x \in {update(s, ib[1], ib[2].close, last_price, ib[2].high,
                           ib[2].low, NoFailure)} :
              ~x.err =>
                  \A fail_at \in SaveFailurePoints :
                      \E r \in {save_state_failing(x.s, db, fail_at)} :
                          /\ ~r.raised
                          /\ r.db = db
    /\ (bars = 0 /\ last_price # None) =>
          \A index \in feed, bar \in Bars, fail_at \in SaveFailurePoints :
              \E good \in {UpdateAll(<<s, Sibling>>, db, 1, index, bar, last_price,
                                     <<NoFailure, NoFailure>>, <<0, 0>>)},
                 bad \in {UpdateAll(<<s, Sibling>>, db, 1, index, bar, last_price,
                                    <<NoFailure, NoFailure>>, <<fail_at, 0>>)} :
                  ~good.raised =>
                      /\ ~bad.raised
                      /\ bad.strategies = good.strategies
                      /\ StoredRows(bad.db, s.name) = StoredRows(db, s.name)
                      /\ StoredRows(bad.db, OtherName) = StoredRows(good.db, OtherName)

\* The snapshot of the last bar failed and the store is behind the
\* instance by history records and a closed trade; the bar before it was
\* stored, and a next bar appends to the history again.
C20_Witness ==
    /\ outcome = "unsaved"
    /\ bars = 2
    /\ s.name \in list_strategies(db)
    /\ Len(RowsOf(db.trade_history, s.name)) < Len(s.trade_history)
    /\ Len(RowsOf(db.open_trades, s.name)) > Len(s.open_trade_list)
    /\ \E ib \in NextBars :
          \E x \in {update(s, ib[1], ib[2].close, last_price, ib[2].high,
                           ib[2].low, NoFailure)} :
              /\ ~x.err
              /\ Len(x.s.trade_history) > Len(s.trade_history)

\* C21 as claimed: the first received bar is not dispatched, only its
\* close is recorded; once a later bar has been dispatched to the strategy,
\* the dispatcher's last_price is the close of the last received bar, which
\* is the prev_close the next update is called with.  It does not hold: an
\* update that raises leaves receive_signal before last_price is set.
C21_LastPriceIsLastClose ==
    /\ outcome \in {"init", "first"} => s = Strategy(cfg)
    /\ s.index # None => last_price = s.price

\* C22: at most one handler, and so at most one update of the strategy, is
\* in flight; the handler in flight is the one that started last (every
\* handler before it has returned, its snapshot included); and the
\* handlers start in the order the requests were accepted.
C22_UpdatesSerialized ==
    /\ Len(ingest.inflight) <= 1
    /\ \A k \in 1..Len(ingest.inflight) : ingest.inflight[k].n = Len(ingest.begun)
    /\ ingest.begun = [k \in 1..Len(ingest.begun) |-> k]
    /\ \A k \in 1..Len(ingest.queue) : ingest.queue[k] = Len(ingest.begun) + k

\* An update has changed the strategy and its snapshot is not stored yet,
\* after an earlier update has returned, while another request waits.
C22_Witness ==
    /\ Len(ingest.inflight) = 1
    /\ ingest.inflight[1].pc = "save"
    /\ ingest.queue # << >>
    /\ bars = 2
    /\ s.trade_history # << >>
    /\ Len(RowsOf(db.trade_history, s.name)) < Len(s.trade_history)

\* C23: a store operation holds the lock of the StatePersistence from its
\* first statement to its last, so never two threads are inside; a load
\* and a save do not interleave, and a finished load has returned the
\* complete state of one store that was committed while it ran (the one
\* before or the one after a concurrent save), never a mixture of two.
C23_StoreOperationsExclusive ==
    /\ Cardinality(persistence.lock) <= 1
    /\ persistence.reader.pc = "read" =>
          /\ persistence.lock = {"reader"}
          /\ persistence.writer.pc \in {"idle", "wait"}
    /\ persistence.writer.pc \in {"write", "commit"} => persistence.lock = {"writer"}
    /\ persistence.reader.pc = "done" =>
          persistence.reader.result
              \in {load_strategy_state(d, s.name) : d \in persistence.reader.seen}

\* A load is between two of its SELECTs on a stored strategy while the
\* strategy's thread, with an update that changed history and open trades
\* behind it, waits at the lock with a save.
C23_Witness ==
    /\ persistence.reader.pc = "read"
    /\ persistence.reader.step \in 2..Len(LoadFields)
    /\ persistence.writer.pc = "wait"
    /\ s.name \in DOMAIN db.strategy_state
    /\ Len(s.trade_history) > Len(RowsOf(db.trade_history, s.name))
    /\ Len(s.open_trade_list) # Len(RowsOf(db.open_trades, s.name))

\* C24: in every state of every run, and so after every update of every
\* sequence of bars, cumulative_pnl has one point per history record of
\* kind EXIT or FLATTEN.
C24_CumulativePnlPerClosedTrade ==
    Len(s.cumulative_pnl)
        = Cardinality({k \in 1..Len(s.trade_history) :
                          s.trade_history[k].kind \in ExitKinds})

\* An update has returned with an entry, an EXIT and a FLATTEN record in
\* the history, so that cumulative_pnl is shorter than the history.
C24_Witness ==
    /\ outcome = "ok"
    /\ \E k \in 1..Len(s.trade_history) : s.trade_history[k].kind \in EntryKinds
    /\ \E k \in 1..Len(s.trade_history) : s.trade_history[k].kind = "EXIT"
    /\ \E k \in 1..Len(s.trade_history) : s.trade_history[k].kind = "FLATTEN"
    /\ Len(s.cumulative_pnl) >= 2

\* C25 as claimed: after every update that returned, when the timestamp of
\* the current bar differs from last_bar_index, entries_this_bar is empty,
\* also for bars of CLOSED and FLATTEN_WINDOW periods.  It does not hold.
C25_EntriesThisBarOfCurrentBar ==
    (outcome = "ok" /\ s.index # s.last_bar_index) => s.entries_this_bar = {}

\* C26: every open trade of a long strategy has stop_level < entry_price <
\* take_profit_level and every open trade of a short strategy has
\* take_profit_level < entry_price < stop_level, so the side derived by
\* `entry_price < take_profit_level` is the direction of the strategy,
\* for trades restored from the store as well.
C26_StopAndTargetOnTheirSides ==
    \A i \in 1..Len(s.open_trade_list) :
        LET trade == s.open_trade_list[i]
        IN  /\ IF s.is_trading_long
               THEN /\ trade.stop_level < trade.entry_price
                    /\ trade.entry_price < trade.take_profit_level
               ELSE /\ trade.take_profit_level < trade.entry_price
                    /\ trade.entry_price < trade.stop_level
            /\ IsLongTrade(trade) = s.is_trading_long

\* A restored strategy holds two open trades, one of them with its
\* trailing stop armed, after a later update.
C26_Witness ==
    /\ outcome = "ok"
    /\ ref.live
    /\ Len(s.open_trade_list) >= 2
    /\ \E i \in 1..Len(s.open_trade_list) : s.open_trade_list[i].trailing_stop # None

\* C27 as claimed: after a refresh attempt that failed, get_token still
\* returns the last token obtained successfully and the refresh thread is
\* alive, so that the next interval brings another attempt.  It does not
\* hold for the TokenManager of app/token_manager.py.
C27_FailedRefreshKeepsTokenAndLoop ==
    (token_manager.ticks > 0 /\ token_manager.failed) =>
        /\ get_token(token_manager) = token_manager.good
        /\ token_manager.alive

\* The annotations of an instance after the level-cross loop of an update
\* in open hours, before the entry rule is evaluated.
AnnotationPhase(inst, index, bar, prev_close) ==
    LET x == Running([inst EXCEPT !.price = bar.close, !.index = index],
                     prev_close, bar.high, bar.low)
    IN  (IF inst.is_trading_long THEN AnnotateBuy(x) ELSE AnnotateSell(x)).s.retrace_levels

\* update takes the branch of open hours for this timestamp.
OpenHours(inst, index) ==
    ~(inst.use_trading_hours /\ (ShouldFlattenPositions(index) \/ ~IsTradingAllowed(index)))

\* C28 as claimed: in every state, long or short, with or without room to
\* trade, for every bar the dispatcher can pass next in open hours, every
\* ladder index i ends the annotation phase as DOWN if close <= L_i < high,
\* else as UP if close >= L_i > low, else with its previous value.  It does
\* not hold for a short strategy.
C28_AnnotationDownFirst ==
    \A ib \in NextBars :
        OpenHours(s, ib[1]) =>
            \E after \in {AnnotationPhase(s, ib[1], ib[2], last_price)} :
                \A i \in LevelIdx :
                    after[i] = IF ib[2].close <= static_levels[i]
                                    /\ static_levels[i] < ib[2].high THEN "down"
                               ELSE IF ib[2].close >= static_levels[i]
                                    /\ static_levels[i] > ib[2].low THEN "up"
                               ELSE s.retrace_levels[i]

\* The entry rule at ladder index i for the next bar, stated on the
\* annotations that the level-cross loop of this update leaves.
EntryDue(inst, index, bar, prev_close, i) ==
    LET long == inst.is_trading_long
        level == static_levels[i]
        re_entry_idx == IF long THEN i + inst.re_entry_distance
                                ELSE i - inst.re_entry_distance
    IN  /\ IF long
           THEN bar.close <= level + inst.entry_offset
                /\ level + inst.entry_offset < prev_close
           ELSE bar.close > level - inst.entry_offset
                /\ level - inst.entry_offset >= prev_close
        /\ re_entry_idx \in LevelIdx
        /\ AnnotationPhase(inst, index, bar, prev_close)[re_entry_idx]
               = (IF long THEN "down" ELSE "up")
        /\ ~(index = inst.last_bar_index /\ i \in inst.entries_this_bar)
        /\ \/ inst.last_entry_time = None
           \/ index - inst.last_entry_time >= MIN_ENTRY_INTERVAL_MINUTES

\* C29: in every state with open_trade_count < max_open_trades, for every
\* bar the dispatcher can pass next in open hours, the entry rule fires at
\* exactly the ladder indices where price condition, annotation of the
\* re-entry index, per-bar limit and five-minute limit all hold, whatever
\* the broker answers; each firing clears the annotation it consulted, and
\* when the orders fill, the entries recorded are those of these indices
\* and every trade created has entry_price = close, stop at close minus
\* (long) or plus (short) stop_loss_offset, take-profit at close plus
\* (long) or minus (short) take_profit_offset and the triggering level.
C29_EntryFiresIffRule ==
    \A ib \in NextBars :
        (OpenHours(s, ib[1]) /\ s.open_trade_count < s.max_open_trades) =>
            \E due \in {{i \in LevelIdx : EntryDue(s, ib[1], ib[2], last_price, i)}} :
                /\ \A plan \in BrokerPlans :
                      \E x \in {update(s, ib[1], ib[2].close, last_price,
                                       ib[2].high, ib[2].low, plan)} :
                          plan.at <= x.calls =>
                              /\ x.s.fires - s.fires = Cardinality(due)
                              /\ \A i \in due :
                                    x.s.retrace_levels[
                                        IF s.is_trading_long
                                        THEN i + s.re_entry_distance
                                        ELSE i - s.re_entry_distance] = "none"
                /\ \E y \in {update(s, ib[1], ib[2].close, last_price,
                                    ib[2].high, ib[2].low, NoFailure).s} :
                      /\ {y.entry_log[k].level_idx :
                              k \in (Len(s.entry_log) + 1)..Len(y.entry_log)} = due
                      /\ \A k \in 1..Len(y.open_trade_list) :
                            LET trade == y.open_trade_list[k]
                            IN  trade.id > Len(s.trade_history) =>
                                  /\ trade.entry_price = ib[2].close
                                  /\ trade.stop_level =
                                        IF s.is_trading_long
                                        THEN ib[2].close - s.stop_loss_offset
                                        ELSE ib[2].close + s.stop_loss_offset
                                  /\ trade.take_profit_level =
                                        IF s.is_trading_long
                                        THEN ib[2].close + s.take_profit_offset
                                        ELSE ib[2].close - s.take_profit_offset
                                  /\ \E i \in due : trade.traded_level = static_levels[i]

\* After a filled entry, with room for another trade, one next bar in open
\* hours fires the rule and its trade is created, and another, less than
\* five minutes after the entry, meets the price and annotation conditions
\* and fires nothing.
C29_Witness ==
    /\ outcome = "ok"
    /\ s.entry_log # << >>
    /\ s.open_trade_count < s.max_open_trades
    /\ \E ib \in NextBars, i \in LevelIdx :
          /\ OpenHours(s, ib[1])
          /\ EntryDue(s, ib[1], ib[2], last_price, i)
          /\ Len(update(s, ib[1], ib[2].close, last_price, ib[2].high,
                        ib[2].low, NoFailure).s.open_trade_list)
                > Len(s.open_trade_list)
    /\ \E ib \in NextBars, i \in LevelIdx :
          /\ OpenHours(s, ib[1])
          /\ ib[1] - s.last_entry_time < MIN_ENTRY_INTERVAL_MINUTES
          /\ EntryDue([s EXCEPT !.last_entry_time = None, !.entries_this_bar = {}],
                      ib[1], ib[2], last_price, i)
          /\ update(s, ib[1], ib[2].close, last_price, ib[2].high,
                    ib[2].low, NoFailure).s.fires = s.fires

\* The exit rule of a trade for a bar closing at close.
ExitDue(inst, trade, close) ==
    IF inst.is_trading_long
    THEN \/ close <= trade.stop_level
         \/ trade.trailing_stop # None /\ close <= trade.trailing_stop
         \/ close >= trade.take_profit_level
    ELSE \/ close >= trade.stop_level
         \/ trade.trailing_stop # None /\ close >= trade.trailing_stop
         \/ close <= trade.take_profit_level

\* The realized pnl of a trade closed at close.
ExitPnl(inst, trade, close) ==
    IF inst.is_trading_long
    THEN (close - trade.entry_price) * inst.symbol_size
    ELSE (trade.entry_price - close) * inst.symbol_size

\* The positions of the history records of a kind that after has and
\* before has not.
NewRecords(before, after, kind) ==
    {k \in (Len(before.trade_history) + 1)..Len(after.trade_history) :
        after.trade_history[k].kind = kind}

\* The ids of the trades of the open list.
OpenIds(inst) == {inst.open_trade_list[k].id : k \in 1..Len(inst.open_trade_list)}

\* C30 as claimed: in every state, for every bar the dispatcher can pass
\* next and every answer of the broker, an update that does not flatten
\* closes the open trades for which the exit rule holds and no others when
\* it returns; every trade it closes gets exactly one EXIT record with the
\* pnl of its side, that pnl is added to total_pnl, total_pnl is appended
\* to cumulative_pnl, and exactly the closed trades leave the open list.
\* It does not hold.
C30_ExitIffRule ==
    \A ib \in NextBars, plan \in BrokerPlans :
        \E x \in {update(s, ib[1], ib[2].close, last_price, ib[2].high, ib[2].low, plan)} :
            (plan.at <= x.calls /\ NewRecords(s, x.s, "FLATTEN") = {}) =>
                LET y == x.s
                    exits == NewRecords(s, y, "EXIT")
                    gone == OpenIds(s) \ OpenIds(y)
                IN  /\ ~x.err =>
                          gone = {s.open_trade_list[k].id :
                                     k \in {j \in 1..Len(s.open_trade_list) :
                                               ExitDue(s, s.open_trade_list[j], ib[2].close)}}
                    /\ Cardinality(exits) = Cardinality(gone)
                    /\ \A k \in exits :
                          /\ y.trade_history[k].price = ib[2].close
                          /\ \E j \in 1..Len(s.open_trade_list) :
                                y.trade_history[k].pnl
                                    = ExitPnl(s, s.open_trade_list[j], ib[2].close)
                    /\ y.total_pnl = s.total_pnl
                          + SumPnl(SubSeq(y.trade_history, Len(s.trade_history) + 1,
                                          Len(y.trade_history)))
                    /\ Len(y.cumulative_pnl) = Len(s.cumulative_pnl) + Cardinality(exits)
                    /\ exits # {} => y.cumulative_pnl[Len(y.cumulative_pnl)] = y.total_pnl

\* The values of trail_trigger for which the arming step is examined.
TrailTriggers == 0..2

\* Exit evaluation at a bar closing at close of one open trade alone, by a
\* strategy whose trail_trigger is the given one.
EvaluateAlone(inst, trade, trail_trigger, close) ==
    check_trade_to_remove(
        Running([inst EXCEPT !.trail_trigger = trail_trigger,
                             !.price = close,
                             !.open_trade_list = <<trade>>,
                             !.open_trade_count = 1],
                last_price, close, close),
        NoFailure)

\* The ladder index an unarmed trade is armed at.
ArmingIndex(inst, trade, trail_trigger) ==
    IF inst.is_trading_long
    THEN IndexOfLevel(trade.traded_level) + trail_trigger
    ELSE IndexOfLevel(trade.traded_level) - trail_trigger

C32_CounterSelfHeals ==
    [][ (/\ bars' = bars + 1
         /\ s.open_trade_count # Len(s.open_trade_list)
         /\ outcome' = "ok")
        => s'.open_trade_count = Len(s'.open_trade_list) ]_vars

\* update takes the CLOSED branch for this timestamp: trading hours are
\* on, the flatten window is over or not begun, and trading is not allowed.
ClosedHours(inst, index) ==
    /\ inst.use_trading_hours
    /\ ~ShouldFlattenPositions(index)
    /\ ~IsTradingAllowed(index)

\* C33 as claimed: in every state, for every bar the dispatcher can pass
\* next whose time is CLOSED and every answer of the broker, an update
\* that returns has closed every open trade whose exit condition holds at
\* the close, each with an EXIT record, has opened no trade, and has left
\* retrace annotations, entries_this_bar and last_entry_time unchanged.
\* It does not hold.
C33_ClosedBarExitsOnly ==
    \A ib \in NextBars :
        ClosedHours(s, ib[1]) =>
            \A plan \in BrokerPlans :
                \E x \in {update(s, ib[1], ib[2].close, last_price, ib[2].high,
                                 ib[2].low, plan)} :
                    (plan.at <= x.calls /\ ~x.err) =>
                        /\ x.s.retrace_levels = s.retrace_levels
                        /\ x.s.entries_this_bar = s.entries_this_bar
                        /\ x.s.last_entry_time = s.last_entry_time
                        /\ NewRecords(s, x.s, "BUY") \cup NewRecords(s, x.s, "SELL") = {}
                        /\ OpenIds(x.s) \subseteq OpenIds(s)
                        /\ \A k \in 1..Len(s.open_trade_list) :
                              ExitDue(s, s.open_trade_list[k], ib[2].close) =>
                                  /\ s.open_trade_list[k].id \notin OpenIds(x.s)
                                  /\ NewRecords(s, x.s, "EXIT") # {}

\* The times the oracle is examined at: every minute of two weeks, the
\* second of which begins with the early close of the calendar.
ClockTimes == 0..(14 * MinutesPerDay - 1)

\* The status of the rule: CLOSED on Saturday, on Sunday before 17:00 and
\* from the close of the date to 17:00; FLATTEN_WINDOW in the 20 minutes
\* before the close; OPEN otherwise.
StatusByRule(dt) ==
    LET t == TimeOf(dt)
        close == IF DateOf(dt) \in DOMAIN early_close_calendar
                 THEN early_close_calendar[DateOf(dt)] ELSE 16 * 60
    IN  IF \/ Weekday(dt) = 5
           \/ Weekday(dt) = 6 /\ t < 17 * 60
           \/ close <= t /\ t < 17 * 60
        THEN "CLOSED"
        ELSE IF close - 20 <= t /\ t < close THEN "FLATTEN_WINDOW"
        ELSE "OPEN"

\* The oracle's answers for one time agree with the rule.
OracleAgrees(dt) ==
    /\ get_trading_status(dt) = StatusByRule(dt)
    /\ IsTradingAllowed(dt) = (StatusByRule(dt) = "OPEN")
    /\ IsMarketClosed(dt) = (StatusByRule(dt) = "CLOSED")
    /\ ShouldFlattenPositions(dt) = (StatusByRule(dt) = "FLATTEN_WINDOW")

\* C34: for every minute of every weekday, with the standard close and with
\* the early close of the calendar, get_trading_status yields the status of
\* the rule, and is_trading_allowed, is_market_closed and
\* should_flatten_positions are true exactly for OPEN, CLOSED and
\* FLATTEN_WINDOW; checked for all times before the first bar and for the
\* timestamps of the feed in every state.
C34_OracleFollowsRule ==
    /\ outcome = "init" => \A dt \in ClockTimes : OracleAgrees(dt)
    /\ \A dt \in feed : OracleAgrees(dt)

\* An update has returned for a bar in the flatten window of the early
\* close, in a run whose feed also has a bar in open hours, one on
\* Saturday and one on Sunday before the reopen.
C34_Witness ==
    /\ outcome = "ok"
    /\ DateOf(s.index) \in DOMAIN early_close_calendar
    /\ TimeOf(s.index) < DAILY_CLOSE_TIME - FLATTEN_MINUTES_BEFORE_CLOSE
    /\ get_trading_status(s.index) = "FLATTEN_WINDOW"
    /\ \E dt \in feed : get_trading_status(dt) = "OPEN"
    /\ \E dt \in feed : Weekday(dt) = 5 /\ get_trading_status(dt) = "CLOSED"
    /\ \E dt \in feed : Weekday(dt) = 6 /\ get_trading_status(dt) = "CLOSED"

\* C35 as claimed: in every state, for every bar the dispatcher can pass
\* next and every answer of the broker, when an annotation is UP or DOWN
\* before the update and NONE after it, the update has appended at least
\* one BUY or SELL record and created an open trade.  It does not hold.
C35_ClearedOnlyByEntry ==
    \A ib \in NextBars, plan \in BrokerPlans :
        \E x \in {update(s, ib[1], ib[2].close, last_price, ib[2].high, ib[2].low, plan)} :
            (/\ plan.at <= x.calls
             /\ \E i \in LevelIdx :
                   s.retrace_levels[i] # "none" /\ x.s.retrace_levels[i] = "none")
            => /\ NewRecords(s, x.s, "BUY") \cup NewRecords(s, x.s, "SELL") # {}
               /\ Len(x.s.entry_log) > Len(s.entry_log)

\* The level-cross loop writes the annotation of this level for this bar.
Crosses(bar, level) ==
    \/ bar.close <= level /\ level < bar.high
    \/ bar.close >= level /\ level > bar.low

\* The ladder index whose annotation an entry at index i consults.
ReEntryIndex(inst, i) ==
    IF inst.is_trading_long THEN i + inst.re_entry_distance
                            ELSE i - inst.re_entry_distance

\* The ladder indices of the entries an update records that fills its
\* orders.
EnteredBy(inst, index, bar, prev_close) ==
    LET y == update(inst, index, bar.close, prev_close, bar.high, bar.low, NoFailure).s
    IN  {y.entry_log[k].level_idx : k \in (Len(inst.entry_log) + 1)..Len(y.entry_log)}

\* C36 as claimed: in every state, for every bar the dispatcher can pass
\* next, an entry of the update consults an annotation that the level-cross
\* loop of the same update has not written.  It does not hold.
C36_EntryArmedByEarlierUpdate ==
    \A ib \in NextBars :
        \A i \in EnteredBy(s, ib[1], ib[2], last_price) :
            ~Crosses(ib[2], static_levels[ReEntryIndex(s, i)])

\* C36: in every state, for every bar the dispatcher can pass next, an
\* entry at ladder index i consults the annotation of another index, i +
\* re_entry_distance (long) or i - re_entry_distance (short), and that
\* annotation was DOWN (long) or UP (short) before the update or is written
\* by the level-cross loop of the same update.
C36_EntryArmedByOtherIndex ==
    \A ib \in NextBars :
        \A i \in EnteredBy(s, ib[1], ib[2], last_price) :
            \E j \in {ReEntryIndex(s, i)} :
                /\ j \in LevelIdx
                /\ j # i
                /\ \/ s.retrace_levels[j] = (IF s.is_trading_long THEN "down" ELSE "up")
                   \/ Crosses(ib[2], static_levels[j])

\* After an update that recorded the opposite annotation or none, a next
\* bar enters at one level on the annotation that its own range writes at
\* the consulted level.
C36_Witness ==
    /\ outcome = "ok"
    /\ \E ib \in NextBars :
          \E i \in EnteredBy(s, ib[1], ib[2], last_price) :
              /\ Crosses(ib[2], static_levels[ReEntryIndex(s, i)])
              /\ s.retrace_levels[ReEntryIndex(s, i)]
                    # (IF s.is_trading_long THEN "down" ELSE "up")

\* The number of history records of the strategy with a kind of the set.
CountRecords(inst, kinds) ==
    Cardinality({k \in 1..Len(inst.trade_history) : inst.trade_history[k].kind \in kinds})

\* C37 as claimed: in every state, the number of BUY and SELL records
\* equals the number of EXIT and FLATTEN records plus the length of the
\* open trade list.  It does not hold: an update that the broker aborts has
\* recorded the exit of a trade that stays in the list.
C37_TradeConservation ==
    CountRecords(s, EntryKinds) = CountRecords(s, ExitKinds) + Len(s.open_trade_list)

\* The closes at which the arming step is examined: the bar prices and the
\* prices of the ladder levels themselves.
ArmingCloses == Prices \cup {static_levels[i] : i \in LevelIdx}

\* C38 as claimed: for every open trade without trailing stop of every
\* state and every close, an exit evaluation that arms the trailing stop of
\* the trade leaves the close on the open side of that stop (above it for a
\* long trade, below it for a short one), so that the trailing-stop
\* condition does not close the trade in the same update.  It does not
\* hold for a short trade at a close equal to the arming level.
C38_ArmingUpdateKeepsTrade ==
    \A k \in 1..Len(s.open_trade_list), close \in ArmingCloses :
        LET trade == s.open_trade_list[k]
        IN  (trade.trailing_stop = None /\ ~ArmingRaises(s, trade)) =>
              \E y \in {EvaluateAlone(s, trade, s.trail_trigger, close)} :
                  \E after \in {IF y.s.open_trade_list # << >>
                                THEN y.s.open_trade_list[1] ELSE y.rm[1]} :
                      after.trailing_stop # None =>
                          IF trade.entry_price < trade.take_profit_level
                          THEN ~(close <= after.trailing_stop)
                          ELSE ~(close >= after.trailing_stop)

\* After an update that returned, the process is stopped and started
\* again and the store fails the read of load_state: the error is logged,
\* load_state returns False and the new instance starts from its
\* constructor while the rows of its name stay in the store.
RestartLoadFails ==
    /\ ~ref.live
    /\ outcome = "ok"
    /\ \E saved \in {save_state(s, db)}, fresh \in {Strategy(cfg)} :
          /\ db' = saved
          /\ s' = fresh
    /\ ref' = [live |-> TRUE, s |-> s]
    /\ outcome' = "fresh"
    /\ UNCHANGED <<cfg, last_price, feed, bars, ingest, persistence, token_manager>>

NextFreshStart == ReceiveFirst \/ Dispatch \/ RestartLoadFails

SpecFreshStart == Init /\ [][NextFreshStart]_vars

\* C39 as claimed: in every state that a successful save_state has left,
\* the trade history and the cumulative_pnl the store returns for the
\* strategy equal the trade_history and cumulative_pnl of the instance,
\* also after saves that failed and after a start from the constructor
\* with rows of the name in the store.  It does not hold after such a
\* start.
C39_StoreCatchesUp ==
    outcome = "ok" =>
        \E loaded \in {LoadedState(db, s.name)} :
            /\ ParsedHistory(loaded.trade_history) = s.trade_history
            /\ loaded.cumulative_pnl = s.cumulative_pnl

\* print_trade_stats: the winning and the losing trades it selects from
\* trade_history and the total_trade it stores.
print_trade_stats(inst) ==
    LET wins == {k \in 1..Len(inst.trade_history) :
                    inst.trade_history[k].kind = "EXIT" /\ inst.trade_history[k].pnl > 0}
        losses == {k \in 1..Len(inst.trade_history) :
                    inst.trade_history[k].kind = "EXIT" /\ inst.trade_history[k].pnl <= 0}
    IN  [wins |-> wins, losses |-> losses,
         total_trade |-> Cardinality(wins) + Cardinality(losses)]

\* C40 as claimed: in every state, the total_trade that print_trade_stats
\* stores equals the number of EXIT and FLATTEN records of trade_history and
\* the length of cumulative_pnl.  It does not hold once a trade has been
\* flattened.
C40_TotalTradeCountsEveryClose ==
    \E stats \in {print_trade_stats(s)} :
        /\ stats.total_trade = CountRecords(s, ExitKinds)
        /\ stats.total_trade = Len(s.cumulative_pnl)

====
